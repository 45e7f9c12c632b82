---------------------------- MODULE CustodyProofs ----------------------------
(***************************************************************************)
(* Proofs about what custody keeps: the keys, the backups, and the         *)
(* databases that are restored from them.                                  *)
(*                                                                         *)
(* Keys.  Whatever writers, deletions, purges and other rotations run      *)
(* beside it, a rotation loses no write, undoes no deletion, changes what  *)
(* it reports and nothing else, and is answered truly; and while keys are  *)
(* handed out in order every process can read every record.                *)
(*                                                                         *)
(* Backups.  Whatever backups are made and retired at the same time, fail, *)
(* or die between any two calls, the chain is linked, who was answered was *)
(* told the truth, exactly one backup can be restored once there is one,   *)
(* and the history is only added to.                                       *)
(*                                                                         *)
(* Databases.  Whoever migrates, restores, inspects, promotes and uses a   *)
(* database, its schema changes at once and its mode by a recorded         *)
(* promotion, and nobody writes to it before; it holds whole snapshots,    *)
(* and one that was promoted what was inspected.                           *)
(*                                                                         *)
(* For any number of records, processes, rotators, backups, migrators,     *)
(* restores and operators.  No two of the three modules share a variable.  *)
(***************************************************************************)
EXTENDS KeyRotation, FiniteSetTheorems, SequenceTheorems, WellFoundedInduction, TLAPS

CONSTANTS
  Keepers, MaxBackups, MaxRetirements,                          \* BackupChain
  Migrators, Apps, Restorers, Operators, Migrations, Installations, Snapshots,
  Dumps, BadRows, PromotionIds, Written, MaxCrashes,
  NoRuntime                                                     \* RestorePromotion

VARIABLES
  inventory, next, lockFile, artifacts, caller, retirements, signed, created,
  failed,                                                       \* BackupChain
  ledger, runtime, data, promotions, mig, app, restorer, op, inspected,
  answers, overlapped, crashes                                  \* RestorePromotion

B == INSTANCE BackupChain WITH Processes <- Keepers, process <- caller
R == INSTANCE RestorePromotion WITH Ids <- PromotionIds

(***************************************************************************)
(* The rotation of keys.                                                   *)
(***************************************************************************)

-----------------------------------------------------------------------------
(* The inductive invariant.                                                *)

Results == [id : Ids, target : Targets, outcome :
              {"duplicate", "conflict", "invalid_input", "failed", "rotated"}]
SettledRecords == [pc : {"idle"}, result : Results \cup {None}]
Rows == UNION {[S -> Envelopes] : S \in SUBSET Records}
Jobs ==
  [pc : {"requested", "begun", "locking", "rewrapping", "committed"}, result : {None},
   id : Ids, source : Sources, target : Targets, ids : SUBSET Records,
   rows : Rows, moved : Rows, clean : BOOLEAN]
Reports == [target : Targets, records : (SUBSET Records) \ {{}}]
Writing == [record : Records, envelope : Envelopes]
Purges == [todo : Seq(Records), seen : SUBSET Records, doomed : SUBSET Records]

Types ==
  /\ table \in [Records -> Envelopes \cup {None}]
  /\ reports \in [Ids -> Reports \cup {None}]
  /\ rowLock \in [Records -> Rotators \cup {Free, Purger}]
  /\ idLock \in [Ids -> Rotators \cup {Free}]
  /\ process \in [Processes -> [ring : DOMAIN Rings, pending : Writing \cup {None}]]
  /\ rotation \in [Rotators -> Jobs \cup SettledRecords]
  /\ purge \in Purges \cup {None}
  /\ latest \in [Records -> 0..MaxWrites] /\ writes \in 0..MaxWrites
  /\ requests \in Nat /\ retirable \in BOOLEAN

(* What a rotation has read it holds, and as it is in the table; a rotation*)
(* that is under way holds its id, which has no report yet.                *)
AtWork(t) == rotation[t].pc \in {"locking", "rewrapping"}
InTransaction(t) == rotation[t].pc \in {"begun", "locking", "rewrapping"}

RowsAreHeld ==
  /\ \A t \in Rotators : AtWork(t) =>
       \A r \in DOMAIN rotation[t].rows : rowLock[r] = t /\ rotation[t].rows[r] = table[r]
  /\ \A t \in Rotators, r \in Records :
       rowLock[r] = t => AtWork(t) /\ r \in DOMAIN rotation[t].rows
DoomedAreHeld ==
  \A r \in Records : rowLock[r] = Purger <=> purge # None /\ r \in purge.doomed
IdsAreHeld ==
  /\ \A t \in Rotators : InTransaction(t) =>
       idLock[rotation[t].id] = t /\ reports[rotation[t].id] = None
  /\ \A t \in Rotators, i \in Ids :
       idLock[i] = t => InTransaction(t) /\ rotation[t].id = i

(* A row a rotation has yet to come to is there.                           *)
SelectedAreThere ==
  \A t \in Rotators : rotation[t].pc = "locking" => \A r \in rotation[t].ids : table[r] # None

(* How far a rotation has come.                                            *)
Stage(t) ==
  /\ rotation[t].pc \in {"requested", "begun"} => DOMAIN rotation[t].rows = {}
  /\ rotation[t].pc \in {"requested", "begun", "locking"} => DOMAIN rotation[t].moved = {}
  /\ rotation[t].pc = "rewrapping" =>
       /\ rotation[t].ids = {} /\ Candidates(t) # {}
       /\ DOMAIN rotation[t].moved \subseteq Candidates(t)
       /\ \A r \in DOMAIN rotation[t].moved :
            rotation[t].moved[r] = Rewrapped(rotation[t].rows[r], rotation[t].target)
  /\ rotation[t].pc = "committed" =>
       /\ reports[rotation[t].id] # None
       /\ reports[rotation[t].id].target = rotation[t].target
Stages == \A t \in Rotators : Stage(t)

(* Every write has a content of its own.                                   *)
Fresh ==
  /\ \A r \in Records : table[r] # None => table[r].content <= writes
  /\ \A p \in Processes : process[p].pending # None =>
       /\ process[p].pending.envelope.content <= writes
       /\ \A r \in Records : table[r] # None =>
            table[r].content # process[p].pending.envelope.content
       /\ \A q \in Processes \ {p} : process[q].pending # None =>
            process[q].pending.envelope.content # process[p].pending.envelope.content

IInv ==
  /\ Types /\ RowsAreHeld /\ DoomedAreHeld /\ IdsAreHeld /\ SelectedAreThere /\ Stages
  /\ Fresh /\ NoWriteIsLost /\ AnswersAgree

(* While the procedure is followed.                                        *)
HoldsAll(k) == \A p \in Processes : k \in KeysOf(Rings[process[p].ring])
WritersAreRead == \A p \in Processes : HoldsAll(Key(Rings[process[p].ring]))
RecordsAreRead ==
  \A r \in Records : table[r] # None => HoldsAll(table[r].key) /\ table[r].under = table[r].key
PendingIsCurrent ==
  \A p \in Processes : process[p].pending # None =>
    /\ process[p].pending.envelope.key = Key(Rings[process[p].ring])
    /\ process[p].pending.envelope.under = process[p].pending.envelope.key
TargetsAreHeld == \A t \in Rotators : rotation[t].pc # "idle" => HoldsAll(rotation[t].target)

(* A rotation that began when everyone wrote under the last key has seen   *)
(* every record that is not under it; once it is committed there is none.  *)
UnderLast(r) == table[r] = None \/ table[r].key = LastKey
CleanSeesAll ==
  \A t \in Rotators : AtWork(t) /\ rotation[t].clean =>
    /\ AllWriteUnder(LastKey)
    /\ \A r \in Records : UnderLast(r) \/ r \in rotation[t].ids \cup DOMAIN rotation[t].rows
RetirableIsClean ==
  retirable => AllWriteUnder(LastKey) /\ \A r \in Records : UnderLast(r)

Procedure ==
  /\ WritersAreRead /\ RecordsAreRead /\ PendingIsCurrent /\ TargetsAreHeld
  /\ CleanSeesAll /\ RetirableIsClean
-----------------------------------------------------------------------------
(* Records, envelopes and keys.                                            *)

LEMMA NoneIsNone ==
  /\ None \notin Envelopes /\ None \notin Reports /\ None \notin Writing /\ None \notin Purges
  /\ None \notin Results
<1>1. DOMAIN None = {"none"}
  BY DEF None
<1>2. \A e \in Envelopes : "key" \in DOMAIN e
  BY DEF Envelopes
<1>3. \A e \in Reports : "target" \in DOMAIN e
  BY DEF Reports
<1>4. \A e \in Writing : "record" \in DOMAIN e
  BY DEF Writing
<1>5. \A e \in Purges : "todo" \in DOMAIN e
  BY DEF Purges
<1>6. \A e \in Results : "target" \in DOMAIN e
  BY DEF Results
<1> QED
  BY <1>1, <1>2, <1>3, <1>4, <1>5, <1>6

LEMMA LowestIsIn == ASSUME NEW S \in SUBSET Nat, S # {} PROVE Lowest(S) \in S
<1>1. PICK r \in S : \A s \in S : ~(<<s, r>> \in OpToRel(<, Nat))
  BY WFMin, NatLessThanWellFounded
<1>2. \A s \in S : <<s, r>> \in OpToRel(<, Nat) <=> s < r
  BY DEF OpToRel
<1>3. \A s \in S : r <= s
  <2> SUFFICES ASSUME NEW s \in S PROVE r <= s
    OBVIOUS
  <2>1. s \in Nat /\ r \in Nat /\ ~(s < r)
    BY <1>1, <1>2
  <2> QED
    BY <2>1
<1> QED
  BY <1>3 DEF Lowest

LEMMA NoRows == <<>> \in Rows /\ DOMAIN <<>> = {}
<1>1. DOMAIN <<>> = {}
  OBVIOUS
<1>2. <<>> = [r \in {} |-> {}]
  OBVIOUS
<1>3. [r \in {} |-> {}] \in [{} -> Envelopes]
  OBVIOUS
<1> QED
  BY <1>1, <1>2, <1>3 DEF Rows

LEMMA RowsTyped ==
  ASSUME NEW rows \in Rows
  PROVE  /\ DOMAIN rows \subseteq Records
         /\ \A r \in DOMAIN rows : rows[r] \in Envelopes
BY DEF Rows

LEMMA RowAdded ==
  ASSUME NEW rows \in Rows, NEW r \in Records, NEW e \in Envelopes, NEW new,
         new = [s \in DOMAIN rows \cup {r} |-> IF s = r THEN e ELSE rows[s]]
  PROVE  /\ new \in Rows /\ DOMAIN new = DOMAIN rows \cup {r} /\ new[r] = e
         /\ \A s \in DOMAIN rows : s # r => new[s] = rows[s]
<1>1. DOMAIN rows \cup {r} \in SUBSET Records
  BY RowsTyped
<1>2. new \in [DOMAIN rows \cup {r} -> Envelopes]
  BY RowsTyped
<1> QED
  BY <1>1, <1>2 DEF Rows

LEMMA KeysTyped ==
  ASSUME RotationAssumption
  PROVE  /\ Len(Rings) \in Nat /\ 1 \in DOMAIN Rings /\ Len(Rings) \in DOMAIN Rings
         /\ DOMAIN Rings = 1..Len(Rings)
         /\ \A i \in DOMAIN Rings : Key(Rings[i]) \in KeysOf(Rings[i]) /\ Key(Rings[i]) \in Keys
         /\ Targets \subseteq Keys
<1>1. Len(Rings) \in Nat /\ DOMAIN Rings = 1..Len(Rings)
  BY DEF RotationAssumption
<1>2. Len(Rings) # 0
  BY DEF RotationAssumption
<1>3. \A i \in DOMAIN Rings : Key(Rings[i]) \in KeysOf(Rings[i])
  BY DEF RotationAssumption, Key, KeysOf
<1>4. \A i \in DOMAIN Rings : KeysOf(Rings[i]) \subseteq Keys
  BY DEF Keys
<1>5. Targets \subseteq Keys
  BY DEF Keys
<1> QED
  BY <1>1, <1>2, <1>3, <1>4, <1>5

LEMMA EnvelopeTyped ==
  ASSUME NEW k \in Keys, NEW content \in 1..MaxWrites, NEW expires \in BOOLEAN
  PROVE  /\ Envelope(k, k, content, expires) \in Envelopes
         /\ Envelope(k, k, content, expires).key = k
         /\ Envelope(k, k, content, expires).under = k
         /\ Envelope(k, k, content, expires).content = content
BY DEF Envelope, Envelopes

LEMMA JobTyped ==
  ASSUME NEW id \in Ids, NEW source \in Sources, NEW target \in Targets
  PROVE  /\ Requested(id, source, target) \in Jobs
         /\ Requested(id, source, target).pc = "requested"
         /\ Requested(id, source, target).id = id
         /\ Requested(id, source, target).target = target
         /\ DOMAIN Requested(id, source, target).rows = {}
         /\ DOMAIN Requested(id, source, target).moved = {}
<1>1. PICK none : none = <<>>
  OBVIOUS
<1>2. none \in Rows /\ DOMAIN none = {}
  BY <1>1, NoRows
<1>3. Requested(id, source, target) =
        [pc |-> "requested", result |-> None, id |-> id, source |-> source, target |-> target,
         ids |-> {}, rows |-> none, moved |-> none, clean |-> FALSE]
  BY <1>1 DEF Requested
<1> HIDE <1>1
<1> QED
  BY <1>2, <1>3 DEF Jobs

LEMMA SettledTyped ==
  /\ Settled(None) \in SettledRecords
  /\ \A result \in Results : Settled(result) \in SettledRecords
BY DEF Settled, SettledRecords

LEMMA InitInvariant == RotationAssumption /\ Init => IInv
<1> SUFFICES ASSUME RotationAssumption, Init PROVE IInv
  OBVIOUS
<1>1. /\ \A t \in Rotators : rotation[t] = Settled(None)
      /\ \A p \in Processes : process[p] = [ring |-> 1, pending |-> None]
      /\ \A r \in Records : rowLock[r] = Free /\ table[r] = None /\ latest[r] = 0
      /\ \A i \in Ids : idLock[i] = Free /\ reports[i] = None
      /\ Free \notin Rotators /\ Free # Purger /\ purge = None
  BY DEF Init, RotationAssumption, Free, Purger
<1>2. Types
  <2>1. 0 \in 0..MaxWrites
    BY DEF RotationAssumption
  <2>2. /\ process \in [Processes -> [ring : DOMAIN Rings, pending : Writing \cup {None}]]
        /\ rotation \in [Rotators -> Jobs \cup SettledRecords]
    BY KeysTyped, SettledTyped DEF Init
  <2>3. /\ table \in [Records -> Envelopes \cup {None}]
        /\ reports \in [Ids -> Reports \cup {None}]
        /\ rowLock \in [Records -> Rotators \cup {Free, Purger}]
        /\ idLock \in [Ids -> Rotators \cup {Free}]
    BY DEF Init
  <2> QED
    BY <2>1, <2>2, <2>3 DEF Init, Types
<1>3. \A t \in Rotators : rotation[t].pc = "idle" /\ rotation[t].result = None
  BY <1>1 DEF Settled
<1>4. RowsAreHeld /\ IdsAreHeld /\ SelectedAreThere /\ Stages /\ AnswersAgree /\ DoomedAreHeld
  BY <1>1, <1>3
  DEF RowsAreHeld, DoomedAreHeld, IdsAreHeld, SelectedAreThere, Stages, Stage, AnswersAgree, AtWork, InTransaction
<1>5. Fresh /\ NoWriteIsLost
  BY <1>1 DEF Fresh, NoWriteIsLost
<1> QED
  BY <1>2, <1>4, <1>5 DEF IInv
-----------------------------------------------------------------------------
(* The steps of a rotation, by what they do.                               *)

Agrees(result) ==
  result.outcome \in {"rotated", "duplicate"} =>
    reports[result.id] # None /\ reports[result.id].target = result.target

Others(t) ==
  /\ rotation' \in [Rotators -> Jobs \cup SettledRecords]
  /\ \A u \in Rotators : u # t => rotation'[u] = rotation[u]

\* No rotation moves; those that have yet to come to a row that is gone skip it.
SameBut(gone) ==
  /\ rotation' \in [Rotators -> Jobs \cup SettledRecords]
  /\ \A t \in Rotators :
       /\ rotation'[t].pc = rotation[t].pc /\ rotation'[t].result = rotation[t].result
       /\ rotation'[t].id = rotation[t].id /\ rotation'[t].target = rotation[t].target
       /\ rotation'[t].rows = rotation[t].rows /\ rotation'[t].moved = rotation[t].moved
       /\ rotation'[t].clean = rotation[t].clean
       /\ rotation'[t].ids =
            IF rotation[t].pc = "locking" THEN rotation[t].ids \ gone ELSE rotation[t].ids

Ends(t) ==
  /\ Others(t) /\ rotation[t] \in Jobs /\ rotation'[t] \in SettledRecords
  /\ rotation'[t].result # None => Agrees(rotation'[t].result)
  /\ ReleaseAll(t)
  /\ UNCHANGED <<table, reports, process, purge, latest, retirable, writes, requests>>

Onward(t, pc) ==
  /\ Others(t) /\ rotation[t] \in Jobs /\ rotation'[t] \in Jobs
  /\ rotation'[t].pc = pc
  /\ rotation'[t].id = rotation[t].id /\ rotation'[t].target = rotation[t].target
  /\ UNCHANGED <<process, purge, latest, writes, requests>>
SameRows(t) == rotation'[t].ids = rotation[t].ids /\ rotation'[t].rows = rotation[t].rows
SameMoved(t) == rotation'[t].moved = rotation[t].moved
SameClean(t) == rotation'[t].clean = rotation[t].clean

Begins(t) ==
  /\ rotation[t].pc = "requested" /\ reports[rotation[t].id] = None
  /\ Onward(t, "begun") /\ SameRows(t) /\ SameMoved(t) /\ SameClean(t)
  /\ idLock[rotation[t].id] = Free /\ idLock' = [idLock EXCEPT ![rotation[t].id] = t]
  /\ UNCHANGED <<table, reports, rowLock, retirable>>

Selects(t) ==
  /\ rotation[t].pc = "begun" /\ Onward(t, "locking") /\ SameMoved(t)
  /\ rotation'[t].rows = rotation[t].rows
  /\ rotation'[t].ids = {r \in Records : table[r] # None}
  /\ rotation'[t].clean = (rotation[t].target = LastKey /\ AllWriteUnder(LastKey))
  /\ UNCHANGED <<table, reports, rowLock, idLock, retirable>>

Locks(t, r) ==
  /\ rotation[t].pc = "locking" /\ Onward(t, "locking") /\ SameMoved(t) /\ SameClean(t)
  /\ r \in rotation[t].ids /\ rowLock[r] = Free /\ table[r] # None
  /\ rotation'[t].ids = rotation[t].ids \ {r}
  /\ DOMAIN rotation'[t].rows = DOMAIN rotation[t].rows \cup {r}
  /\ rotation'[t].rows[r] = table[r]
  /\ \A s \in DOMAIN rotation[t].rows : s # r => rotation'[t].rows[s] = rotation[t].rows[s]
  /\ rowLock' = [rowLock EXCEPT ![r] = t]
  /\ UNCHANGED <<table, reports, idLock, retirable>>

Turns(t) ==
  /\ rotation[t].pc = "locking" /\ Onward(t, "rewrapping")
  /\ SameRows(t) /\ SameMoved(t) /\ SameClean(t)
  /\ rotation[t].ids = {} /\ Candidates(t) # {}
  /\ UNCHANGED <<table, reports, rowLock, idLock, retirable>>

Rewraps(t, r) ==
  /\ rotation[t].pc = "rewrapping" /\ Onward(t, "rewrapping") /\ SameRows(t) /\ SameClean(t)
  /\ r \in Left(t)
  /\ DOMAIN rotation'[t].moved = DOMAIN rotation[t].moved \cup {r}
  /\ rotation'[t].moved[r] = Rewrapped(rotation[t].rows[r], rotation[t].target)
  /\ \A s \in DOMAIN rotation[t].moved : s # r => rotation'[t].moved[s] = rotation[t].moved[s]
  /\ UNCHANGED <<table, reports, rowLock, idLock, retirable>>

Commits(t) ==
  /\ rotation[t].pc = "rewrapping" /\ Onward(t, "committed") /\ Left(t) = {}
  /\ table' = Updated(rotation[t].moved)
  /\ reports' = [reports EXCEPT ![rotation[t].id] =
       [target |-> rotation[t].target, records |-> DOMAIN rotation[t].moved]]
  /\ retirable' = (retirable \/ rotation[t].clean)
  /\ ReleaseAll(t)

LEMMA OneMoves ==
  ASSUME IInv, NEW t \in Rotators, NEW c \in Jobs \cup SettledRecords,
         rotation' = [rotation EXCEPT ![t] = c]
  PROVE  Others(t) /\ rotation'[t] = c
BY DEF IInv, Types, Others

LEMMA JobOf ==
  ASSUME IInv, NEW t \in Rotators
  PROVE  rotation[t].pc # "idle" => rotation[t] \in Jobs
BY DEF IInv, Types, SettledRecords

LEMMA JobFields ==
  ASSUME NEW c \in Jobs
  PROVE  /\ c.pc \in {"requested", "begun", "locking", "rewrapping", "committed"}
         /\ c.result = None /\ c.id \in Ids /\ c.source \in Sources /\ c.target \in Targets
         /\ c.ids \in SUBSET Records /\ c.rows \in Rows /\ c.moved \in Rows
BY DEF Jobs

LEMMA RowsAreSkipped ==
  ASSUME IInv, NEW gone, rotation' = Skipping(gone)
  PROVE  SameBut(gone)
<1> SUFFICES ASSUME NEW t \in Rotators
             PROVE  /\ rotation'[t] \in Jobs \cup SettledRecords
                    /\ rotation'[t].pc = rotation[t].pc
                    /\ rotation'[t].result = rotation[t].result
                    /\ rotation'[t].id = rotation[t].id
                    /\ rotation'[t].target = rotation[t].target
                    /\ rotation'[t].rows = rotation[t].rows
                    /\ rotation'[t].moved = rotation[t].moved
                    /\ rotation'[t].clean = rotation[t].clean
                    /\ rotation'[t].ids = IF rotation[t].pc = "locking"
                                          THEN rotation[t].ids \ gone ELSE rotation[t].ids
  BY DEF SameBut, Skipping
<1>1. CASE rotation[t].pc # "locking"
  BY <1>1 DEF Skipping, IInv, Types
<1>2. CASE rotation[t].pc = "locking"
  <2> PICK c : c = [rotation[t] EXCEPT !.ids = rotation[t].ids \ gone]
    OBVIOUS
  <2>1. rotation[t] \in Jobs /\ rotation'[t] = c
    BY <1>2, JobOf DEF Skipping
  <2>2. /\ c \in Jobs /\ c.pc = rotation[t].pc /\ c.result = rotation[t].result
        /\ c.id = rotation[t].id /\ c.target = rotation[t].target
        /\ c.rows = rotation[t].rows /\ c.moved = rotation[t].moved
        /\ c.clean = rotation[t].clean /\ c.ids = rotation[t].ids \ gone
    BY <2>1 DEF Jobs
  <2> QED
    BY <1>2, <2>1, <2>2
<1> QED
  BY <1>1, <1>2

LEMMA NoneIsSkipped == ASSUME IInv, rotation' = rotation PROVE SameBut({})
<1>1. \A t \in Rotators : rotation[t].ids \ {} = rotation[t].ids
  OBVIOUS
<1> QED
  BY <1>1 DEF SameBut, IInv, Types

LEMMA JobSteps ==
  ASSUME NEW c \in Jobs,
         NEW pc \in {"requested", "begun", "locking", "rewrapping", "committed"}, NEW d,
         d = [c EXCEPT !.pc = pc]
  PROVE  /\ d \in Jobs /\ d.pc = pc /\ d.id = c.id /\ d.target = c.target
         /\ d.ids = c.ids /\ d.rows = c.rows /\ d.moved = c.moved /\ d.clean = c.clean
BY DEF Jobs

LEMMA AnswersEnd ==
  ASSUME IInv, NEW t \in Rotators, rotation[t].pc # "idle",
         NEW outcome \in {"duplicate", "conflict", "invalid_input", "failed", "rotated"},
         outcome \in {"rotated", "duplicate"} =>
           /\ reports[rotation[t].id] # None
           /\ reports[rotation[t].id].target = rotation[t].target,
         Answers(t, outcome)
  PROVE  Ends(t)
<1> PICK a : a = [id |-> rotation[t].id, target |-> rotation[t].target, outcome |-> outcome]
  OBVIOUS
<1>1. rotation[t] \in Jobs /\ rotation[t].id \in Ids /\ rotation[t].target \in Targets
  BY JobOf, JobFields
<1>2. a \in Results /\ a.id = rotation[t].id /\ a.target = rotation[t].target /\ a.outcome = outcome
  BY <1>1 DEF Results
<1>3. Settled(a) \in SettledRecords /\ Settled(a).result = a
  BY <1>2 DEF Settled, SettledRecords
<1>4. rotation' = [rotation EXCEPT ![t] = Settled(a)]
  BY DEF Answers
<1>5. Others(t) /\ rotation'[t] = Settled(a)
  BY <1>3, <1>4, OneMoves
<1>6. Agrees(a)
  BY <1>2 DEF Agrees
<1> QED
  BY <1>1, <1>3, <1>5, <1>6 DEF Ends, Answers, ghosts

LEMMA AbortEnds ==
  ASSUME IInv, NEW t \in Rotators, Abort(t)
  PROVE  Ends(t)
<1>1. rotation' = [rotation EXCEPT ![t] = Settled(None)] /\ rotation[t] \in Jobs
  BY JobOf DEF Abort
<1>2. Others(t) /\ rotation'[t] = Settled(None) /\ Settled(None) \in SettledRecords
  BY <1>1, OneMoves, SettledTyped
<1>3. Settled(None).result = None
  BY DEF Settled
<1> QED
  BY <1>1, <1>2, <1>3 DEF Ends, Abort, ghosts

(* A rotation that is committed holds no lock any more.                    *)
LEMMA LoseAnswerEnds ==
  ASSUME RotationAssumption, IInv, NEW t \in Rotators, LoseAnswer(t)
  PROVE  Ends(t)
<1>1. rotation' = [rotation EXCEPT ![t] = Settled(None)] /\ rotation[t] \in Jobs
  BY JobOf DEF LoseAnswer
<1>2. Others(t) /\ rotation'[t] = Settled(None) /\ Settled(None) \in SettledRecords
  BY <1>1, OneMoves, SettledTyped
<1>3. Settled(None).result = None
  BY DEF Settled
<1>4. /\ \A r \in Records : rowLock[r] # t
      /\ \A i \in Ids : idLock[i] # t
  BY DEF LoseAnswer, IInv, RowsAreHeld, IdsAreHeld, AtWork, InTransaction
<1>5. ReleaseAll(t)
  BY <1>4 DEF LoseAnswer, locks, ReleaseAll, Release, IInv, Types
<1> QED
  BY <1>1, <1>2, <1>3, <1>5 DEF Ends, LoseAnswer, ghosts

LEMMA AnswerEnds ==
  ASSUME IInv, NEW t \in Rotators, Answer(t)
  PROVE  Ends(t)
<1>1. rotation[t].pc = "committed" /\ Answers(t, "rotated")
  BY DEF Answer
<1>2. /\ reports[rotation[t].id] # None
      /\ reports[rotation[t].id].target = rotation[t].target
  BY <1>1 DEF IInv, Stages, Stage
<1> QED
  BY <1>1, <1>2, AnswersEnd

LEMMA TakeIdLockSteps ==
  ASSUME IInv, NEW t \in Rotators, TakeIdLock(t)
  PROVE  Ends(t) \/ Begins(t)
<1>1. rotation[t].pc = "requested" /\ rotation[t] \in Jobs /\ idLock[rotation[t].id] = Free
  BY JobOf DEF TakeIdLock
<1>2. CASE reports[rotation[t].id] # None
  <2>1. Answers(t, PriorOutcome(t))
    BY <1>2 DEF TakeIdLock
  <2> QED
    BY <1>1, <1>2, <2>1, AnswersEnd DEF PriorOutcome
<1>3. CASE reports[rotation[t].id] = None
  <2> PICK c : c = [rotation[t] EXCEPT !.pc = "begun"]
    OBVIOUS
  <2>1. /\ idLock' = [idLock EXCEPT ![rotation[t].id] = t]
        /\ rotation' = [rotation EXCEPT ![t] = c]
        /\ UNCHANGED <<table, reports, rowLock, process, purge, ghosts, writes, requests>>
    BY <1>3 DEF TakeIdLock
  <2>2. /\ c \in Jobs /\ c.pc = "begun" /\ c.id = rotation[t].id /\ c.target = rotation[t].target
        /\ c.ids = rotation[t].ids /\ c.rows = rotation[t].rows
        /\ c.moved = rotation[t].moved /\ c.clean = rotation[t].clean
    BY <1>1, JobSteps
  <2>3. Others(t) /\ rotation'[t] = c
    BY <2>1, <2>2, OneMoves
  <2> QED
    BY <1>1, <1>3, <2>1, <2>2, <2>3
    DEF Begins, Onward, SameRows, SameMoved, SameClean, ghosts
<1> QED
  BY <1>2, <1>3
LEMMA SelectSteps ==
  ASSUME IInv, NEW t \in Rotators, Select(t)
  PROVE  Selects(t)
<1> PICK c, ids, clean :
         /\ ids = {r \in Records : table[r] # None}
         /\ clean = (rotation[t].target = LastKey /\ AllWriteUnder(LastKey))
         /\ c = [rotation[t] EXCEPT !.pc = "locking", !.ids = ids, !.clean = clean]
  OBVIOUS
<1>1. /\ rotation[t].pc = "begun" /\ rotation[t] \in Jobs
      /\ rotation' = [rotation EXCEPT ![t] = c]
      /\ UNCHANGED <<table, reports, locks, process, purge, ghosts, writes, requests>>
  BY JobOf DEF Select
<1>2. ids \in SUBSET Records /\ clean \in BOOLEAN
  OBVIOUS
<1>3. /\ c \in Jobs /\ c.pc = "locking" /\ c.id = rotation[t].id /\ c.target = rotation[t].target
      /\ c.ids = ids /\ c.rows = rotation[t].rows /\ c.moved = rotation[t].moved
      /\ c.clean = clean
  BY <1>1, <1>2 DEF Jobs
<1>4. Others(t) /\ rotation'[t] = c
  BY <1>1, <1>3, OneMoves
<1>5. Onward(t, "locking") /\ SameMoved(t)
  BY <1>1, <1>3, <1>4 DEF Onward, SameMoved, ghosts
<1>6. /\ rotation'[t].ids = ids /\ rotation'[t].rows = rotation[t].rows
      /\ UNCHANGED <<table, reports, rowLock, idLock, retirable>>
  BY <1>1, <1>3, <1>4 DEF locks, ghosts
<1>7. rotation'[t].clean = clean
  BY <1>3, <1>4, Zenon
<1> QED
  BY <1>1, <1>5, <1>6, <1>7, Zenon DEF Selects

LEMMA LockRowSteps ==
  ASSUME RotationAssumption, IInv, NEW t \in Rotators, LockRow(t)
  PROVE  \E r \in Records : Locks(t, r)
<1> PICK r : r = Lowest(rotation[t].ids)
  OBVIOUS
<1>1. /\ rotation[t].pc = "locking" /\ rotation[t] \in Jobs
      /\ rotation[t].ids # {} /\ rotation[t].ids \in SUBSET Records
  BY JobOf, JobFields DEF LockRow
<1>2. r \in rotation[t].ids /\ r \in Records
  BY <1>1, LowestIsIn DEF RotationAssumption
<1>3. table[r] # None
  BY <1>1, <1>2 DEF IInv, SelectedAreThere
<1>4. PICK c, rows, e :
        /\ e = table[r]
        /\ rows = [s \in DOMAIN rotation[t].rows \cup {r} |->
                     IF s = r THEN e ELSE rotation[t].rows[s]]
        /\ c = [rotation[t] EXCEPT !.ids = rotation[t].ids \ {r}, !.rows = rows]
  OBVIOUS
<1>5. /\ rowLock[r] = Free /\ rowLock' = [rowLock EXCEPT ![r] = t]
      /\ rotation' = [rotation EXCEPT ![t] = c]
      /\ UNCHANGED <<table, reports, idLock, process, purge, ghosts, writes, requests>>
  BY <1>1, <1>4 DEF LockRow, Read, IInv, Types
<1>6. e \in Envelopes
  BY <1>2, <1>3, <1>4 DEF IInv, Types
<1>7. /\ c \in Jobs /\ c.pc = "locking" /\ c.id = rotation[t].id
      /\ c.target = rotation[t].target /\ c.ids = rotation[t].ids \ {r}
      /\ c.moved = rotation[t].moved /\ c.clean = rotation[t].clean
      /\ DOMAIN c.rows = DOMAIN rotation[t].rows \cup {r} /\ c.rows[r] = e
      /\ \A s \in DOMAIN rotation[t].rows : s # r => c.rows[s] = rotation[t].rows[s]
  <2>1. rotation[t].rows \in Rows
    BY <1>1, JobFields
  <2>2. /\ rows \in Rows /\ DOMAIN rows = DOMAIN rotation[t].rows \cup {r} /\ rows[r] = e
        /\ \A s \in DOMAIN rotation[t].rows : s # r => rows[s] = rotation[t].rows[s]
    <3>1. rows = [s \in DOMAIN rotation[t].rows \cup {r} |->
                    IF s = r THEN e ELSE rotation[t].rows[s]]
      BY <1>4
    <3> QED
      BY <1>2, <1>6, <2>1, <3>1, RowAdded
  <2>3. /\ c \in Jobs /\ c.pc = "locking" /\ c.id = rotation[t].id
        /\ c.target = rotation[t].target /\ c.ids = rotation[t].ids \ {r}
        /\ c.moved = rotation[t].moved /\ c.clean = rotation[t].clean /\ c.rows = rows
    BY <1>1, <1>2, <1>4, <2>2 DEF Jobs
  <2> QED
    BY <2>2, <2>3
<1>8. Others(t) /\ rotation'[t] = c
  BY <1>5, <1>7, OneMoves
<1>9. /\ Onward(t, "locking") /\ SameMoved(t) /\ SameClean(t)
      /\ UNCHANGED <<table, reports, idLock, retirable>>
  BY <1>1, <1>5, <1>7, <1>8 DEF Onward, SameMoved, SameClean, ghosts
<1>10. /\ rotation'[t].ids = rotation[t].ids \ {r}
       /\ DOMAIN rotation'[t].rows = DOMAIN rotation[t].rows \cup {r}
       /\ rotation'[t].rows[r] = table[r]
       /\ \A s \in DOMAIN rotation[t].rows : s # r => rotation'[t].rows[s] = rotation[t].rows[s]
  BY <1>4, <1>7, <1>8
<1>11. Locks(t, r)
  BY <1>1, <1>2, <1>3, <1>5, <1>9, <1>10 DEF Locks
<1> QED
  BY <1>2, <1>11

LEMMA SelectedSteps ==
  ASSUME IInv, NEW t \in Rotators, Selected(t)
  PROVE  Ends(t) \/ Turns(t)
<1>1. rotation[t].pc = "locking" /\ rotation[t] \in Jobs /\ rotation[t].ids = {}
  BY JobOf DEF Selected
<1>2. CASE Candidates(t) = {}
  BY <1>1, <1>2, AnswersEnd DEF Selected
<1>3. CASE Candidates(t) # {}
  <2> PICK c : c = [rotation[t] EXCEPT !.pc = "rewrapping"]
    OBVIOUS
  <2>1. /\ rotation' = [rotation EXCEPT ![t] = c]
        /\ UNCHANGED <<table, reports, locks, process, purge, ghosts, writes, requests>>
    BY <1>3 DEF Selected
  <2>2. /\ c \in Jobs /\ c.pc = "rewrapping" /\ c.id = rotation[t].id
        /\ c.target = rotation[t].target /\ c.ids = rotation[t].ids
        /\ c.rows = rotation[t].rows /\ c.moved = rotation[t].moved /\ c.clean = rotation[t].clean
    BY <1>1, JobSteps
  <2>3. Others(t) /\ rotation'[t] = c
    BY <2>1, <2>2, OneMoves
  <2> QED
    BY <1>1, <1>3, <2>1, <2>2, <2>3
    DEF Turns, Onward, SameRows, SameMoved, SameClean, locks, ghosts
<1> QED
  BY <1>2, <1>3

LEMMA MovedGrow ==
  ASSUME NEW c \in Jobs, NEW r \in Records, NEW e \in Envelopes, NEW d, NEW moved,
         moved = [s \in DOMAIN c.moved \cup {r} |-> IF s = r THEN e ELSE c.moved[s]],
         d = [c EXCEPT !.moved = moved]
  PROVE  /\ d \in Jobs /\ d.pc = c.pc /\ d.id = c.id /\ d.target = c.target
         /\ d.ids = c.ids /\ d.rows = c.rows /\ d.clean = c.clean
         /\ DOMAIN d.moved = DOMAIN c.moved \cup {r} /\ d.moved[r] = e
         /\ \A s \in DOMAIN c.moved : s # r => d.moved[s] = c.moved[s]
<1>1. c.moved \in Rows
  BY JobFields
<1>2. /\ moved \in Rows /\ DOMAIN moved = DOMAIN c.moved \cup {r} /\ moved[r] = e
      /\ \A s \in DOMAIN c.moved : s # r => moved[s] = c.moved[s]
  BY <1>1, RowAdded
<1>3. /\ d \in Jobs /\ d.pc = c.pc /\ d.id = c.id /\ d.target = c.target
      /\ d.ids = c.ids /\ d.rows = c.rows /\ d.clean = c.clean /\ d.moved = moved
  BY <1>2 DEF Jobs
<1> QED
  BY <1>2, <1>3

LEMMA RewrapSteps ==
  ASSUME RotationAssumption, IInv, NEW t \in Rotators, Rewrap(t)
  PROVE  Ends(t) \/ \E r \in Records : Rewraps(t, r)
<1> PICK r, e : r = Lowest(Left(t)) /\ e = rotation[t].rows[r]
  OBVIOUS
<1>1. /\ rotation[t].pc = "rewrapping" /\ rotation[t] \in Jobs /\ Left(t) # {}
      /\ rotation[t].rows \in Rows /\ rotation[t].target \in Targets
  BY JobOf, JobFields DEF Rewrap
<1>2. Left(t) \subseteq DOMAIN rotation[t].rows
  BY DEF Left, Candidates
<1>3. Left(t) \subseteq Records /\ Left(t) \in SUBSET Nat
  BY <1>1, <1>2, RowsTyped DEF RotationAssumption
<1>4. r \in Left(t) /\ r \in Records /\ e \in Envelopes
  BY <1>1, <1>2, <1>3, LowestIsIn, RowsTyped
<1>5. CASE ~(SameProvider(rotation[t].source, e) /\ Unwraps(rotation[t].source, e))
  <2>1. Answers(t, "failed")
    BY <1>5 DEF Rewrap
  <2> QED
    BY <1>1, <2>1, AnswersEnd
<1>6. CASE SameProvider(rotation[t].source, e) /\ Unwraps(rotation[t].source, e)
  <2>0. PICK c, moved, new :
        /\ new = Rewrapped(e, rotation[t].target)
        /\ moved = [s \in DOMAIN rotation[t].moved \cup {r} |->
                      IF s = r THEN new ELSE rotation[t].moved[s]]
        /\ c = [rotation[t] EXCEPT !.moved = moved]
    OBVIOUS
  <2>1. /\ rotation' = [rotation EXCEPT ![t] = c]
        /\ UNCHANGED <<table, reports, locks, process, purge, ghosts, writes, requests>>
    BY <1>6, <2>0 DEF Rewrap
  <2>2. new \in Envelopes
    <3>1. rotation[t].target \in Keys /\ e.content \in 1..MaxWrites /\ e.expires \in BOOLEAN
      BY <1>1, <1>4, KeysTyped DEF Envelopes
    <3> QED
      BY <2>0, <3>1, EnvelopeTyped DEF Rewrapped
  <2>3. /\ c \in Jobs /\ c.pc = "rewrapping" /\ c.id = rotation[t].id
        /\ c.target = rotation[t].target /\ c.ids = rotation[t].ids
        /\ c.rows = rotation[t].rows /\ c.clean = rotation[t].clean
        /\ DOMAIN c.moved = DOMAIN rotation[t].moved \cup {r} /\ c.moved[r] = new
        /\ \A s \in DOMAIN rotation[t].moved : s # r => c.moved[s] = rotation[t].moved[s]
    BY <1>1, <1>4, <2>0, <2>2, MovedGrow
  <2>4. Others(t) /\ rotation'[t] = c
    BY <2>1, <2>3, OneMoves
  <2>5. Rewraps(t, r)
    BY <1>1, <1>4, <2>0, <2>1, <2>3, <2>4
    DEF Rewraps, Onward, SameRows, SameClean, locks, ghosts
  <2> QED
    BY <1>4, <2>5
<1> QED
  BY <1>5, <1>6

LEMMA CommitSteps ==
  ASSUME IInv, NEW t \in Rotators, Commit(t)
  PROVE  Commits(t)
<1> PICK c : c = [rotation[t] EXCEPT !.pc = "committed"]
  OBVIOUS
<1>1. /\ rotation[t].pc = "rewrapping" /\ rotation[t] \in Jobs
      /\ rotation' = [rotation EXCEPT ![t] = c]
  BY JobOf DEF Commit
<1>2. /\ c \in Jobs /\ c.pc = "committed" /\ c.id = rotation[t].id /\ c.target = rotation[t].target
  BY <1>1, JobSteps
<1>3. Others(t) /\ rotation'[t] = c
  BY <1>1, <1>2, OneMoves
<1> QED
  BY <1>1, <1>2, <1>3 DEF Commits, Onward, Commit

LEMMA RequestSteps ==
  ASSUME IInv, NEW t \in Rotators, NEW i \in Ids, NEW s \in Sources, NEW k \in Targets,
         Request(t, i, s, k)
  PROVE  /\ Others(t) /\ rotation[t].pc = "idle" /\ rotation'[t] \in Jobs
         /\ rotation'[t].pc = "requested" /\ rotation'[t].target = k
         /\ DOMAIN rotation'[t].rows = {} /\ DOMAIN rotation'[t].moved = {}
         /\ requests' = requests + 1
         /\ UNCHANGED <<table, reports, rowLock, idLock, process, purge, latest, retirable,
                        writes>>
<1>1. rotation' = [rotation EXCEPT ![t] = Requested(i, s, k)]
  BY DEF Request
<1>2. Others(t) /\ rotation'[t] = Requested(i, s, k)
  BY <1>1, JobTyped, OneMoves
<1> QED
  BY <1>2, JobTyped DEF Request, locks, ghosts
-----------------------------------------------------------------------------
(* Every step is one of these.                                             *)

EndsPurge == purge # None /\ \E S \in SUBSET purge.doomed : EndPurge(S)

Steps ==
  \/ \E p \in Processes, r \in Records, x \in Retention : Encrypt(p, r, x)
  \/ \E p \in Processes : WriteMetadata(p)
  \/ \E p \in Processes, i \in DOMAIN Rings : ChangeRing(p, i)
  \/ \E r \in Records : DeleteMetadata(r)
  \/ \E order \in SetToSeqs(Expired) : StartPurge(order)
  \/ PurgeRow
  \/ EndsPurge
  \/ \E t \in Rotators, i \in Ids, s \in Sources, k \in Targets : Request(t, i, s, k)
  \/ \E t \in Rotators : Ends(t)
  \/ \E t \in Rotators : Begins(t)
  \/ \E t \in Rotators : Selects(t)
  \/ \E t \in Rotators, r \in Records : Locks(t, r)
  \/ \E t \in Rotators : Turns(t)
  \/ \E t \in Rotators, r \in Records : Rewraps(t, r)
  \/ \E t \in Rotators : Commits(t)

LEMMA NextSteps == ASSUME RotationAssumption, IInv, Next PROVE Steps
<1>1. CommitPurge \/ AbortPurge => EndsPurge
  BY DEF CommitPurge, AbortPurge, EndsPurge
<1>2. \A t \in Rotators : DetectDeadlock(t) => Abort(t) \/ AbortPurge
  BY DEF DetectDeadlock
<1>3. ASSUME NEW t \in Rotators, Advance(t) \/ DetectDeadlock(t) \/ Abort(t) \/ LoseAnswer(t)
      PROVE  Steps
  <2>1. CASE TakeIdLock(t)
    BY <2>1, TakeIdLockSteps DEF Steps
  <2>2. CASE Select(t)
    BY <2>2, SelectSteps DEF Steps
  <2>3. CASE LockRow(t)
    BY <2>3, LockRowSteps DEF Steps
  <2>4. CASE Selected(t)
    BY <2>4, SelectedSteps DEF Steps
  <2>5. CASE Rewrap(t)
    BY <2>5, RewrapSteps DEF Steps
  <2>6. CASE Commit(t)
    BY <2>6, CommitSteps DEF Steps
  <2>7. CASE Answer(t) \/ Abort(t) \/ LoseAnswer(t)
    BY <2>7, AnswerEnds, AbortEnds, LoseAnswerEnds DEF Steps
  <2>8. CASE AbortPurge
    BY <2>8, <1>1 DEF Steps
  <2> QED
    BY <1>2, <1>3, <2>1, <2>2, <2>3, <2>4, <2>5, <2>6, <2>7, <2>8 DEF Advance
<1>4. CASE \E p \in Processes :
             \/ \E r \in Records, x \in Retention : Encrypt(p, r, x)
             \/ WriteMetadata(p)
             \/ \E i \in DOMAIN Rings : ChangeRing(p, i)
  BY <1>4 DEF Steps
<1>5. CASE Purging \/ AbortPurge
  BY <1>1, <1>5 DEF Steps, Purging
<1>6. CASE \/ \E r \in Records : DeleteMetadata(r)
           \/ \E order \in SetToSeqs(Expired) : StartPurge(order)
           \/ \E t \in Rotators, i \in Ids, s \in Sources, k \in Targets : Request(t, i, s, k)
  BY <1>6 DEF Steps
<1> QED
  BY <1>3, <1>4, <1>5, <1>6 DEF Next

(* What each of them leaves alone.                                         *)
Working(t) ==
  Begins(t) \/ Selects(t) \/ Turns(t) \/ \E r \in Records : Locks(t, r) \/ Rewraps(t, r)

LEMMA WorkingKeeps ==
  ASSUME NEW t \in Rotators, Working(t)
  PROVE  /\ Others(t) /\ rotation[t] \in Jobs /\ rotation'[t] \in Jobs
         /\ rotation'[t].id = rotation[t].id /\ rotation'[t].target = rotation[t].target
         /\ UNCHANGED <<table, reports, process, purge, latest, writes, requests, retirable>>
BY DEF Working, Begins, Selects, Turns, Locks, Rewraps, Onward

-----------------------------------------------------------------------------
(* Types.                                                                  *)

LEMMA OrdersTyped ==
  ASSUME RotationAssumption, NEW order \in SetToSeqs(Expired)
  PROVE  order \in Seq(Records)
<1>1. IsFiniteSet(Expired)
  BY FS_Subset DEF RotationAssumption, Expired
<1>2. Cardinality(Expired) \in Nat
  BY <1>1, FS_CardinalityType
<1>3. order \in [1..Cardinality(Expired) -> Expired]
  BY DEF SetToSeqs
<1>4. order \in [1..Cardinality(Expired) -> Records]
  BY <1>3 DEF Expired
<1> QED
  BY <1>2, <1>4

LEMMA WriterTypes ==
  ASSUME RotationAssumption, IInv, NEW p \in Processes,
         \/ \E r \in Records, x \in Retention : Encrypt(p, r, x)
         \/ WriteMetadata(p)
         \/ \E i \in DOMAIN Rings : ChangeRing(p, i)
  PROVE  Types'
<1>1. process[p].ring \in DOMAIN Rings /\ process[p].pending \in Writing \cup {None}
  BY DEF IInv, Types
<1>2. ASSUME NEW r \in Records, NEW x \in Retention, Encrypt(p, r, x) PROVE Types'
  <2> PICK e : e = Envelope(Key(Rings[process[p].ring]), Key(Rings[process[p].ring]), writes', x)
    OBVIOUS
  <2>1. /\ process' = [process EXCEPT ![p].pending = [record |-> r, envelope |-> e]]
        /\ writes' = writes + 1 /\ writes < MaxWrites
        /\ UNCHANGED <<table, reports, locks, rotation, purge, ghosts, requests>>
    BY <1>2 DEF Encrypt
  <2>2. writes' \in 1..MaxWrites /\ writes' \in 0..MaxWrites /\ x \in BOOLEAN
    BY <2>1 DEF IInv, Types, RotationAssumption
  <2>3. e \in Envelopes
    BY <1>1, <2>2, KeysTyped, EnvelopeTyped
  <2>4. [record |-> r, envelope |-> e] \in Writing
    BY <2>3 DEF Writing
  <2>5. process' \in [Processes -> [ring : DOMAIN Rings, pending : Writing \cup {None}]]
    BY <1>1, <2>1, <2>4 DEF IInv, Types
  <2> QED
    BY <2>1, <2>2, <2>5 DEF IInv, Types, locks, ghosts
<1>3. CASE WriteMetadata(p)
  <2> PICK r, e : r = process[p].pending.record /\ e = process[p].pending.envelope
    OBVIOUS
  <2>1. /\ process[p].pending # None /\ table' = [table EXCEPT ![r] = e]
        /\ latest' = [latest EXCEPT ![r] = e.content]
        /\ process' = [process EXCEPT ![p].pending = None]
        /\ UNCHANGED <<reports, locks, rotation, purge, retirable, writes, requests>>
    BY <1>3 DEF WriteMetadata
  <2>2. r \in Records /\ e \in Envelopes
    BY <1>1, <2>1 DEF Writing
  <2>3. e.content \in 0..MaxWrites
    BY <2>2 DEF Envelopes, RotationAssumption
  <2>4. process' \in [Processes -> [ring : DOMAIN Rings, pending : Writing \cup {None}]]
    BY <1>1, <2>1 DEF IInv, Types
  <2> QED
    BY <2>1, <2>2, <2>3, <2>4 DEF IInv, Types, locks
<1>4. ASSUME NEW i \in DOMAIN Rings, ChangeRing(p, i) PROVE Types'
  <2>1. process' \in [Processes -> [ring : DOMAIN Rings, pending : Writing \cup {None}]]
    BY <1>4 DEF ChangeRing, IInv, Types
  <2> QED
    BY <1>4, <2>1 DEF ChangeRing, IInv, Types, locks, ghosts
<1> QED
  BY <1>2, <1>3, <1>4

LEMMA PurgePasses ==
  ASSUME NEW c \in Purges, NEW todo \in Seq(Records), NEW d, d = [c EXCEPT !.todo = todo]
  PROVE  d \in Purges /\ d.doomed = c.doomed
BY DEF Purges

LEMMA PurgeSkips ==
  ASSUME NEW c \in Purges, NEW r, NEW d, d = [c EXCEPT !.seen = c.seen \ {r}]
  PROVE  d \in Purges /\ d.doomed = c.doomed
BY DEF Purges

LEMMA PurgeTypes ==
  ASSUME RotationAssumption, IInv,
         \/ \E r \in Records : DeleteMetadata(r)
         \/ \E order \in SetToSeqs(Expired) : StartPurge(order)
         \/ PurgeRow
         \/ EndsPurge
  PROVE  Types'
<1> 0 \in 0..MaxWrites
  BY DEF RotationAssumption
<1>1. ASSUME NEW r \in Records, DeleteMetadata(r) PROVE Types'
  <2>1. rotation' \in [Rotators -> Jobs \cup SettledRecords]
    BY <1>1, RowsAreSkipped DEF DeleteMetadata, SameBut
  <2>2. purge' \in Purges \cup {None}
    BY <1>1, PurgeSkips DEF DeleteMetadata, IInv, Types
  <2> QED
    BY <1>1, <2>1, <2>2 DEF DeleteMetadata, IInv, Types, locks
<1>2. ASSUME NEW order \in SetToSeqs(Expired), StartPurge(order) PROVE Types'
  <2>1. purge' \in Purges
    BY <1>2, OrdersTyped DEF StartPurge, Purges, Expired
  <2> QED
    BY <1>2, <2>1 DEF StartPurge, IInv, Types, locks, ghosts
<1>3. CASE PurgeRow
  <2> PICK r, rest : r = Head(purge.todo) /\ rest = Tail(purge.todo)
    OBVIOUS
  <2>1. /\ purge \in Purges /\ purge.todo # <<>> /\ purge.todo \in Seq(Records)
        /\ purge.doomed \in SUBSET Records
    BY <1>3 DEF PurgeRow, IInv, Types, Purges
  <2>2. r \in Records /\ rest \in Seq(Records)
    BY <2>1
  <2>3. \/ /\ rowLock' = [rowLock EXCEPT ![r] = Purger]
           /\ purge' = [purge EXCEPT !.todo = rest, !.doomed = purge.doomed \union {r}]
        \/ purge' = [purge EXCEPT !.todo = rest] /\ UNCHANGED rowLock
    BY <1>3 DEF PurgeRow
  <2>4. purge' \in Purges
    <3>1. purge' = [purge EXCEPT !.todo = rest] => purge' \in Purges
      BY <2>1, <2>2, PurgePasses
    <3>2. purge' = [purge EXCEPT !.todo = rest, !.doomed = purge.doomed \union {r}]
            => purge' \in Purges
      BY <2>1, <2>2 DEF Purges
    <3> QED
      BY <2>3, <3>1, <3>2
  <2>5. rowLock' \in [Records -> Rotators \cup {Free, Purger}]
    BY <2>2, <2>3 DEF IInv, Types
  <2> QED
    BY <1>3, <2>4, <2>5 DEF PurgeRow, IInv, Types, ghosts
<1>4. CASE EndsPurge
  <2> PICK S \in SUBSET purge.doomed : EndPurge(S)
    BY <1>4 DEF EndsPurge
  <2>1. rotation' \in [Rotators -> Jobs \cup SettledRecords]
    BY RowsAreSkipped DEF EndPurge, SameBut
  <2> QED
    BY <2>1 DEF EndPurge, Release, IInv, Types
<1> QED
  BY <1>1, <1>2, <1>3, <1>4

LEMMA ReleaseTypes ==
  ASSUME IInv, NEW t \in Rotators, ReleaseAll(t)
  PROVE  /\ rowLock' \in [Records -> Rotators \cup {Free, Purger}]
         /\ idLock' \in [Ids -> Rotators \cup {Free}]
         /\ \A r \in Records : rowLock'[r] = IF rowLock[r] = t THEN Free ELSE rowLock[r]
         /\ \A i \in Ids : idLock'[i] = IF idLock[i] = t THEN Free ELSE idLock[i]
BY DEF ReleaseAll, Release, IInv, Types

(* What a rotation commits.                                                *)
LEMMA CommitsWhat ==
  ASSUME IInv, NEW t \in Rotators, Commits(t)
  PROVE  /\ rotation[t].id \in Ids /\ rotation[t].target \in Targets
         /\ DOMAIN rotation[t].moved = Candidates(t) /\ DOMAIN rotation[t].moved # {}
         /\ DOMAIN rotation[t].moved \subseteq Records
         /\ \A r \in DOMAIN rotation[t].moved :
              /\ r \in DOMAIN rotation[t].rows
              /\ rotation[t].moved[r] = Rewrapped(rotation[t].rows[r], rotation[t].target)
              /\ rotation[t].moved[r] \in Envelopes
              /\ rotation[t].rows[r] = table[r] /\ table[r] \in Envelopes
              /\ table[r].key # rotation[t].target
         /\ \A r \in Records : table'[r] =
              IF r \in DOMAIN rotation[t].moved
              THEN Rewrapped(table[r], rotation[t].target) ELSE table[r]
<1>1. /\ rotation[t] \in Jobs /\ rotation[t].pc = "rewrapping" /\ Left(t) = {}
      /\ table' = Updated(rotation[t].moved)
  BY DEF Commits, Onward
<1>2. /\ rotation[t].id \in Ids /\ rotation[t].target \in Targets
      /\ rotation[t].moved \in Rows /\ rotation[t].rows \in Rows
  BY <1>1, JobFields
<1>3. /\ DOMAIN rotation[t].moved \subseteq Candidates(t) /\ Candidates(t) # {}
      /\ \A r \in DOMAIN rotation[t].moved :
           rotation[t].moved[r] = Rewrapped(rotation[t].rows[r], rotation[t].target)
  BY <1>1 DEF IInv, Stages, Stage
<1>4. DOMAIN rotation[t].moved = Candidates(t)
  BY <1>1, <1>3 DEF Left
<1>5. \A r \in Candidates(t) :
        r \in DOMAIN rotation[t].rows /\ rotation[t].rows[r].key # rotation[t].target
  BY DEF Candidates
<1>6. DOMAIN rotation[t].moved \subseteq Records
  BY <1>2, RowsTyped
<1>7. \A r \in DOMAIN rotation[t].rows :
        rotation[t].rows[r] = table[r] /\ rotation[t].rows[r] \in Envelopes
  BY <1>1, <1>2, RowsTyped DEF IInv, RowsAreHeld, AtWork
<1>8. \A r \in DOMAIN rotation[t].moved : rotation[t].moved[r] \in Envelopes
  BY <1>2, RowsTyped
<1>9. \A r \in DOMAIN rotation[t].moved : table[r] # None
  BY <1>3, <1>5, <1>7, NoneIsNone
<1>10. \A r \in Records : table'[r] =
         IF r \in DOMAIN rotation[t].moved
         THEN Rewrapped(table[r], rotation[t].target) ELSE table[r]
  BY <1>1, <1>3, <1>5, <1>7, <1>9 DEF Updated
<1> QED
  BY <1>2, <1>3, <1>4, <1>5, <1>6, <1>7, <1>8, <1>10

LEMMA RotationTypes ==
  ASSUME RotationAssumption, IInv, NEW t \in Rotators,
         \/ \E i \in Ids, s \in Sources, k \in Targets : Request(t, i, s, k)
         \/ Ends(t) \/ Working(t) \/ Commits(t)
  PROVE  Types'
<1>1. ASSUME NEW i \in Ids, NEW s \in Sources, NEW k \in Targets, Request(t, i, s, k) PROVE Types'
  BY <1>1, RequestSteps DEF IInv, Types, Others
<1>2. CASE Ends(t)
  BY <1>2, ReleaseTypes DEF Ends, Others, IInv, Types
<1>3. CASE Working(t)
  <2>1. /\ rowLock' \in [Records -> Rotators \cup {Free, Purger}]
        /\ idLock' \in [Ids -> Rotators \cup {Free}]
    <3>1. CASE Begins(t)
      BY <3>1, JobFields DEF Begins, Onward, IInv, Types
    <3>2. ASSUME NEW r \in Records, Locks(t, r)
          PROVE  /\ rowLock' \in [Records -> Rotators \cup {Free, Purger}]
                 /\ idLock' \in [Ids -> Rotators \cup {Free}]
      BY <3>2 DEF Locks, IInv, Types
    <3>3. ASSUME Selects(t) \/ Turns(t) \/ \E r \in Records : Rewraps(t, r)
          PROVE  UNCHANGED <<rowLock, idLock>>
      BY <3>3 DEF Selects, Turns, Rewraps
    <3> QED
      BY <1>3, <3>1, <3>2, <3>3 DEF Working, IInv, Types
  <2> QED
    BY <1>3, <2>1, WorkingKeeps DEF Others, IInv, Types
<1>4. CASE Commits(t)
  <2>1. [target |-> rotation[t].target, records |-> DOMAIN rotation[t].moved] \in Reports
    BY <1>4, CommitsWhat DEF Reports
  <2>2. reports' \in [Ids -> Reports \cup {None}]
    BY <1>4, <2>1, CommitsWhat DEF Commits, IInv, Types
  <2>3. table' \in [Records -> Envelopes \cup {None}]
    BY <1>4, CommitsWhat DEF Commits, Updated, IInv, Types
  <2>4. rotation[t].clean \in BOOLEAN
    BY <1>4 DEF Commits, Onward, Jobs
  <2>5. retirable' \in BOOLEAN
    BY <1>4, <2>4 DEF Commits
  <2> QED
    BY <1>4, <2>2, <2>3, <2>5, ReleaseTypes DEF Commits, Onward, Others, IInv, Types
<1> QED
  BY <1>1, <1>2, <1>3, <1>4

LEMMA TypesKept == ASSUME RotationAssumption, IInv, Steps PROVE Types'
BY WriterTypes, PurgeTypes, RotationTypes DEF Steps, Working
-----------------------------------------------------------------------------
(* Locks.                                                                  *)

LEMMA HoldersDiffer ==
  ASSUME RotationAssumption
  PROVE  Free \notin Rotators /\ Purger \notin Rotators /\ Free # Purger
BY DEF RotationAssumption, Free, Purger

LEMMA PurgeEnds ==
  ASSUME RotationAssumption, IInv, EndsPurge
  PROVE  /\ purge # None /\ purge' = None
         /\ \A r \in Records :
              /\ rowLock'[r] = IF rowLock[r] = Purger THEN Free ELSE rowLock[r]
              /\ \/ table'[r] = table[r] /\ latest'[r] = latest[r]
                 \/ table'[r] = None /\ latest'[r] = 0 /\ rowLock[r] = Purger
         /\ \E gone \in SUBSET Records :
              /\ SameBut(gone)
              /\ \A r \in Records : table'[r] = IF r \in gone THEN None ELSE table[r]
         /\ UNCHANGED <<reports, idLock, process, retirable, writes, requests>>
<1> PICK S \in SUBSET purge.doomed : EndPurge(S)
  BY DEF EndsPurge
<1>1. \A r \in S : r \in Records => rowLock[r] = Purger
  BY DEF EndsPurge, IInv, DoomedAreHeld
<1>2. SameBut(S)
  BY RowsAreSkipped DEF EndPurge
<1>3. S \in SUBSET Records
  BY DEF EndsPurge, IInv, Types, Purges
<1>4. \A r \in Records : table'[r] = IF r \in S THEN None ELSE table[r]
  BY DEF EndPurge
<1>5. \E gone \in SUBSET Records :
        /\ SameBut(gone)
        /\ \A r \in Records : table'[r] = IF r \in gone THEN None ELSE table[r]
  BY <1>2, <1>3, <1>4
<1> QED
  BY <1>1, <1>5 DEF EndsPurge, EndPurge, Release

LEMMA RowIsPurged ==
  ASSUME RotationAssumption, IInv, PurgeRow
  PROVE  /\ purge # None /\ purge' # None
         /\ UNCHANGED <<table, reports, idLock, process, rotation, ghosts, writes, requests>>
         /\ \/ rowLock' = rowLock /\ purge'.doomed = purge.doomed
            \/ \E r \in Records :
                 /\ rowLock[r] = Free /\ table[r] # None
                 /\ rowLock' = [rowLock EXCEPT ![r] = Purger]
                 /\ purge'.doomed = purge.doomed \cup {r}
<1> PICK r, rest : r = Head(purge.todo) /\ rest = Tail(purge.todo)
  OBVIOUS
<1>1. /\ purge \in Purges /\ purge # None /\ rest \in Seq(Records)
      /\ r \in Records /\ purge.doomed \cup {r} \in SUBSET Records
      /\ UNCHANGED <<table, reports, idLock, process, rotation, ghosts, writes, requests>>
  BY DEF PurgeRow, IInv, Types, Purges
<1>2. \/ /\ r \in purge.seen /\ r \in Expired /\ rowLock[r] = Free
         /\ rowLock' = [rowLock EXCEPT ![r] = Purger]
         /\ purge' = [purge EXCEPT !.todo = rest, !.doomed = purge.doomed \cup {r}]
      \/ purge' = [purge EXCEPT !.todo = rest] /\ UNCHANGED rowLock
  BY DEF PurgeRow
<1>3. purge' = [purge EXCEPT !.todo = rest] => purge' \in Purges /\ purge'.doomed = purge.doomed
  BY <1>1, PurgePasses
<1>4. purge' = [purge EXCEPT !.todo = rest, !.doomed = purge.doomed \cup {r}]
        => purge' \in Purges /\ purge'.doomed = purge.doomed \cup {r}
  BY <1>1 DEF Purges
<1>5. purge' # None
  BY <1>2, <1>3, <1>4, NoneIsNone
<1>6. CASE /\ r \in Expired /\ rowLock[r] = Free
           /\ rowLock' = [rowLock EXCEPT ![r] = Purger]
           /\ purge' = [purge EXCEPT !.todo = rest, !.doomed = purge.doomed \cup {r}]
  <2>1. table[r] # None
    BY <1>1, <1>6 DEF Expired
  <2> QED
    BY <1>1, <1>4, <1>5, <1>6, <2>1
<1>7. CASE purge' = [purge EXCEPT !.todo = rest] /\ UNCHANGED rowLock
  BY <1>1, <1>3, <1>5, <1>7
<1> QED
  BY <1>2, <1>6, <1>7

LEMMA RowsHeldByOthers ==
  ASSUME RotationAssumption, IInv,
         \/ \E p \in Processes, r \in Records, x \in Retention : Encrypt(p, r, x)
         \/ \E p \in Processes : WriteMetadata(p)
         \/ \E p \in Processes, i \in DOMAIN Rings : ChangeRing(p, i)
         \/ \E r \in Records : DeleteMetadata(r)
         \/ \E order \in SetToSeqs(Expired) : StartPurge(order)
         \/ PurgeRow
         \/ EndsPurge
  PROVE  RowsAreHeld'
<1>1. CASE UNCHANGED <<table, rowLock, rotation>>
  BY <1>1 DEF IInv, RowsAreHeld, AtWork
<1>2. ASSUME NEW r \in Records, rowLock[r] = Free, NEW e, table' = [table EXCEPT ![r] = e],
             rowLock' = rowLock, NEW gone, SameBut(gone)
      PROVE  RowsAreHeld'
  <2>1. \A t \in Rotators : AtWork(t) => r \notin DOMAIN rotation[t].rows
    BY <1>2, HoldersDiffer DEF IInv, RowsAreHeld
  <2>2. \A s : s # r => table'[s] = table[s]
    BY <1>2 DEF IInv, Types
  <2>3. \A t \in Rotators :
          rotation'[t].pc = rotation[t].pc /\ rotation'[t].rows = rotation[t].rows
    BY <1>2 DEF SameBut
  <2> QED
    BY <1>2, <2>1, <2>2, <2>3 DEF IInv, RowsAreHeld, AtWork
<1>3. ASSUME NEW p \in Processes, WriteMetadata(p) PROVE RowsAreHeld'
  <2> PICK r : r = process[p].pending.record
    OBVIOUS
  <2>1. r \in Records
    BY <1>3 DEF WriteMetadata, IInv, Types, Writing
  <2>2. SameBut({})
    BY <1>3, NoneIsSkipped DEF WriteMetadata
  <2> QED
    BY <1>2, <1>3, <2>1, <2>2 DEF WriteMetadata, locks
<1>4. ASSUME NEW r \in Records, DeleteMetadata(r) PROVE RowsAreHeld'
  <2>1. SameBut({r})
    BY <1>4, RowsAreSkipped DEF DeleteMetadata
  <2> QED
    BY <1>2, <1>4, <2>1 DEF DeleteMetadata, locks
<1>5. CASE PurgeRow
  <2>1. table' = table /\ rotation' = rotation
    BY <1>5, RowIsPurged
  <2>2. CASE rowLock' = rowLock
    BY <1>1, <2>1, <2>2
  <2>3. ASSUME NEW r \in Records, rowLock[r] = Free, rowLock' = [rowLock EXCEPT ![r] = Purger]
        PROVE  RowsAreHeld'
    <3>1. rowLock'[r] = Purger /\ \A s \in Records : s # r => rowLock'[s] = rowLock[s]
      BY <2>3 DEF IInv, Types
    <3>2. \A t \in Rotators : AtWork(t) => DOMAIN rotation[t].rows \subseteq Records
      BY JobOf, JobFields, RowsTyped DEF AtWork
    <3> QED
      BY <2>1, <2>3, <3>1, <3>2, HoldersDiffer DEF IInv, RowsAreHeld, AtWork
  <2> QED
    BY <1>5, <2>2, <2>3, RowIsPurged
<1>6. CASE EndsPurge
  <2>1. PICK gone : SameBut(gone)
    BY <1>6, PurgeEnds
  <2>2. \A t \in Rotators : AtWork(t) => DOMAIN rotation[t].rows \subseteq Records
    BY JobOf, JobFields, RowsTyped DEF AtWork
  <2>3. \A t \in Rotators :
          rotation'[t].pc = rotation[t].pc /\ rotation'[t].rows = rotation[t].rows
    BY <2>1 DEF SameBut
  <2> QED
    BY <1>6, <2>2, <2>3, PurgeEnds, HoldersDiffer DEF IInv, RowsAreHeld, AtWork
<1>7. (\/ \E p \in Processes, r \in Records, x \in Retention : Encrypt(p, r, x)
       \/ \E p \in Processes, i \in DOMAIN Rings : ChangeRing(p, i)
       \/ \E order \in SetToSeqs(Expired) : StartPurge(order))
      => UNCHANGED <<table, rowLock, rotation>>
  BY DEF Encrypt, ChangeRing, StartPurge, locks
<1> QED
  BY <1>1, <1>3, <1>4, <1>5, <1>6, <1>7

(* The rows of one rotation are held as they were, or as it moves on.      *)
HoldsRows(t) ==
  /\ AtWork(t) =>
       \A r \in DOMAIN rotation[t].rows : rowLock[r] = t /\ rotation[t].rows[r] = table[r]
  /\ \A r \in Records : rowLock[r] = t => AtWork(t) /\ r \in DOMAIN rotation[t].rows

LEMMA RowsHeldByRotation ==
  ASSUME RotationAssumption, IInv, NEW t \in Rotators,
         \/ \E i \in Ids, s \in Sources, k \in Targets : Request(t, i, s, k)
         \/ Ends(t) \/ Working(t) \/ Commits(t)
  PROVE  RowsAreHeld'
<1>1. \A u \in Rotators : HoldsRows(u)
  BY DEF IInv, RowsAreHeld, HoldsRows
<1>2. \A u \in Rotators : AtWork(u) => DOMAIN rotation[u].rows \subseteq Records
  BY JobOf, JobFields, RowsTyped DEF AtWork
<1>3. ASSUME NEW i \in Ids, NEW s \in Sources, NEW k \in Targets, Request(t, i, s, k)
      PROVE  RowsAreHeld'
  BY <1>1, <1>3, RequestSteps DEF RowsAreHeld, HoldsRows, AtWork, Others
<1>4. CASE Ends(t)
  <2>1. \A u \in Rotators : u # t => HoldsRows(u)'
    <3> SUFFICES ASSUME NEW u \in Rotators, u # t PROVE HoldsRows(u)'
      OBVIOUS
    <3>1. rotation'[u] = rotation[u] /\ table' = table
      BY <1>4 DEF Ends, Others
    <3>2. \A r \in Records : rowLock'[r] = u <=> rowLock[r] = u
      BY <1>4, ReleaseTypes, HoldersDiffer DEF Ends
    <3> QED
      BY <1>1, <1>2, <3>1, <3>2 DEF HoldsRows, AtWork
  <2>2. rotation'[t].pc = "idle" /\ \A r \in Records : rowLock'[r] # t
    BY <1>4, ReleaseTypes, HoldersDiffer DEF Ends, SettledRecords
  <2> QED
    BY <2>1, <2>2 DEF RowsAreHeld, HoldsRows, AtWork
<1>5. CASE Commits(t)
  <2>1. \A u \in Rotators : u # t => HoldsRows(u)'
    <3> SUFFICES ASSUME NEW u \in Rotators, u # t PROVE HoldsRows(u)'
      OBVIOUS
    <3>1. rotation'[u] = rotation[u]
      BY <1>5 DEF Commits, Onward, Others
    <3>2. \A r \in DOMAIN rotation[t].moved : rowLock[r] = t
      <4>1. rotation[t].pc = "rewrapping" /\ HoldsRows(t)
        BY <1>1, <1>5 DEF Commits
      <4>2. \A r \in DOMAIN rotation[t].rows : rowLock[r] = t
        BY <4>1 DEF HoldsRows, AtWork
      <4>3. DOMAIN rotation[t].moved \subseteq DOMAIN rotation[t].rows
        BY <1>5, CommitsWhat
      <4> QED
        BY <4>2, <4>3
    <3>3. \A r \in Records : rowLock[r] = u => table'[r] = table[r] /\ rowLock'[r] = u
      <4>1. \A r \in Records : r \notin DOMAIN rotation[t].moved => table'[r] = table[r]
        BY <1>5, CommitsWhat
      <4>2. \A r \in Records : rowLock[r] = u => rowLock'[r] = u
        BY <1>5, ReleaseTypes DEF Commits
      <4> QED
        BY <3>2, <4>1, <4>2
    <3>4. \A r \in Records : rowLock'[r] = u => rowLock[r] = u
      BY <1>5, ReleaseTypes, HoldersDiffer DEF Commits
    <3> QED
      BY <1>1, <1>2, <3>1, <3>3, <3>4 DEF HoldsRows, AtWork
  <2>2. rotation'[t].pc = "committed" /\ \A r \in Records : rowLock'[r] # t
    BY <1>5, ReleaseTypes, HoldersDiffer DEF Commits, Onward
  <2> QED
    BY <2>1, <2>2 DEF RowsAreHeld, HoldsRows, AtWork
<1>6. CASE Working(t)
  <2>1. Others(t) /\ table' = table
    BY <1>6, WorkingKeeps
  <2>2. CASE \E r \in Records : Locks(t, r)
    <3> PICK r \in Records : Locks(t, r)
      BY <2>2
    <3>1. /\ rowLock[r] = Free /\ rowLock'[r] = t
          /\ \A s \in Records : s # r => rowLock'[s] = rowLock[s]
      BY DEF Locks, IInv, Types
    <3>2. \A u \in Rotators : u # t => HoldsRows(u)'
      BY <1>1, <1>2, <2>1, <3>1, HoldersDiffer DEF HoldsRows, AtWork, Others
    <3>3. HoldsRows(t)'
      BY <1>1, <1>2, <2>1, <3>1 DEF HoldsRows, AtWork, Locks, Onward
    <3> QED
      BY <3>2, <3>3 DEF RowsAreHeld, HoldsRows, AtWork
  <2>3. CASE ~\E r \in Records : Locks(t, r)
    <3>1. rowLock' = rowLock
      BY <1>6, <2>3 DEF Working, Begins, Selects, Turns, Rewraps
    <3>2. \A u \in Rotators : u # t => HoldsRows(u)'
      BY <1>1, <2>1, <3>1 DEF HoldsRows, AtWork, Others
    <3>3. ASSUME Begins(t) PROVE HoldsRows(t)'
      BY <1>1, <2>1, <3>1, <3>3 DEF HoldsRows, AtWork, Begins, Onward
    <3>4. ASSUME Selects(t) PROVE HoldsRows(t)'
      <4>1. DOMAIN rotation'[t].rows = {}
        BY <3>4 DEF Selects, IInv, Stages, Stage
      <4>2. \A r \in Records : rowLock[r] # t
        BY <1>1, <3>4 DEF HoldsRows, AtWork, Selects
      <4> QED
        BY <2>1, <3>1, <4>1, <4>2 DEF HoldsRows, AtWork
    <3>5. ASSUME Turns(t) \/ \E r \in Records : Rewraps(t, r)
          PROVE  HoldsRows(t)'
      <4>1. /\ rotation[t].pc \in {"locking", "rewrapping"}
            /\ rotation'[t].pc \in {"locking", "rewrapping"}
            /\ rotation'[t].rows = rotation[t].rows
        BY <3>5 DEF Turns, Rewraps, Onward, SameRows
      <4> QED
        BY <1>1, <2>1, <3>1, <4>1 DEF HoldsRows, AtWork
    <3>6. HoldsRows(t)'
      BY <1>6, <2>3, <3>3, <3>4, <3>5 DEF Working
    <3> QED
      BY <3>2, <3>6 DEF RowsAreHeld, HoldsRows, AtWork
  <2> QED
    BY <2>2, <2>3
<1> QED
  BY <1>3, <1>4, <1>5, <1>6

LEMMA RowsAreHeldKept == ASSUME RotationAssumption, IInv, Steps PROVE RowsAreHeld'
BY RowsHeldByOthers, RowsHeldByRotation DEF Steps, Working
LEMMA DoomedAreHeldKept == ASSUME RotationAssumption, IInv, Steps PROVE DoomedAreHeld'
<1>1. CASE UNCHANGED <<rowLock, purge>>
  BY <1>1 DEF IInv, DoomedAreHeld
<1>2. ASSUME NEW order \in SetToSeqs(Expired), StartPurge(order) PROVE DoomedAreHeld'
  <2>1. /\ purge = None /\ rowLock' = rowLock
        /\ purge' = [todo |-> order, seen |-> Expired, doomed |-> {}]
    BY <1>2 DEF StartPurge, locks
  <2>2. purge'.doomed = {}
    BY <2>1
  <2>3. \A r \in Records : rowLock[r] # Purger
    BY <2>1 DEF IInv, DoomedAreHeld
  <2> QED
    BY <2>1, <2>2, <2>3 DEF DoomedAreHeld
<1>3. CASE PurgeRow
  <2>1. purge # None /\ purge' # None
    BY <1>3, RowIsPurged
  <2>2. CASE rowLock' = rowLock /\ purge'.doomed = purge.doomed
    BY <2>1, <2>2 DEF IInv, DoomedAreHeld
  <2>3. ASSUME NEW r \in Records, rowLock' = [rowLock EXCEPT ![r] = Purger],
               purge'.doomed = purge.doomed \cup {r}
        PROVE  DoomedAreHeld'
    <3>1. rowLock'[r] = Purger /\ \A s \in Records : s # r => rowLock'[s] = rowLock[s]
      BY <2>3 DEF IInv, Types
    <3> QED
      BY <2>1, <2>3, <3>1 DEF IInv, DoomedAreHeld
  <2> QED
    BY <1>3, <2>2, <2>3, RowIsPurged
<1>4. CASE EndsPurge
  BY <1>4, PurgeEnds, HoldersDiffer DEF IInv, DoomedAreHeld
<1>5. ASSUME NEW t \in Rotators, Ends(t) \/ Commits(t) PROVE DoomedAreHeld'
  <2>1. purge' = purge /\ ReleaseAll(t)
    BY <1>5 DEF Ends, Commits, Onward
  <2> QED
    BY <2>1, ReleaseTypes, HoldersDiffer DEF IInv, DoomedAreHeld
<1>6. ASSUME NEW t \in Rotators, NEW r \in Records, Locks(t, r) PROVE DoomedAreHeld'
  <2>1. rowLock[r] = Free /\ rowLock' = [rowLock EXCEPT ![r] = t] /\ purge' = purge
    BY <1>6 DEF Locks, Onward
  <2>2. rowLock'[r] = t /\ \A s \in Records : s # r => rowLock'[s] = rowLock[s]
    BY <2>1 DEF IInv, Types
  <2> QED
    BY <2>1, <2>2, HoldersDiffer DEF IInv, DoomedAreHeld
<1>7. ASSUME \/ \E p \in Processes, r \in Records, x \in Retention : Encrypt(p, r, x)
             \/ \E p \in Processes : WriteMetadata(p)
             \/ \E p \in Processes, i \in DOMAIN Rings : ChangeRing(p, i)
      PROVE  UNCHANGED <<rowLock, purge>>
  BY <1>7 DEF Encrypt, WriteMetadata, ChangeRing, locks
<1>8. ASSUME NEW t \in Rotators,
             \/ \E i \in Ids, s \in Sources, k \in Targets : Request(t, i, s, k)
             \/ Begins(t) \/ Selects(t) \/ Turns(t)
             \/ \E r \in Records : Rewraps(t, r)
      PROVE  UNCHANGED <<rowLock, purge>>
  BY <1>8 DEF Request, Begins, Selects, Turns, Rewraps, Onward, locks
<1>9. ASSUME NEW r \in Records, DeleteMetadata(r) PROVE DoomedAreHeld'
  <2>1. /\ rowLock' = rowLock
        /\ purge' = IF purge = None THEN None ELSE [purge EXCEPT !.seen = purge.seen \ {r}]
    BY <1>9 DEF DeleteMetadata, locks
  <2>2. CASE purge = None
    BY <2>1, <2>2 DEF IInv, DoomedAreHeld
  <2>3. CASE purge # None
    <3>1. purge \in Purges /\ purge' = [purge EXCEPT !.seen = purge.seen \ {r}]
      BY <2>1, <2>3 DEF IInv, Types
    <3>2. purge' # None /\ purge'.doomed = purge.doomed
      BY <3>1, PurgeSkips, NoneIsNone
    <3> QED
      BY <2>1, <2>3, <3>2 DEF IInv, DoomedAreHeld
  <2> QED
    BY <2>2, <2>3
<1> QED
  BY <1>1, <1>2, <1>3, <1>4, <1>5, <1>6, <1>7, <1>8, <1>9 DEF Steps

(* What is not a step of a rotation leaves them all alone, but that they   *)
(* skip the rows that are gone.                                            *)
ByOthers ==
  \/ \E p \in Processes, r \in Records, x \in Retention : Encrypt(p, r, x)
  \/ \E p \in Processes : WriteMetadata(p)
  \/ \E p \in Processes, i \in DOMAIN Rings : ChangeRing(p, i)
  \/ \E r \in Records : DeleteMetadata(r)
  \/ \E order \in SetToSeqs(Expired) : StartPurge(order)
  \/ PurgeRow
  \/ EndsPurge

Clears(gone) ==
  /\ SameBut(gone) /\ \A r \in gone : table'[r] = None
  /\ \A r \in Records \ gone : table[r] # None => table'[r] # None

LEMMA OthersKeep ==
  ASSUME RotationAssumption, IInv, ByOthers
  PROVE  /\ UNCHANGED <<reports, idLock, retirable, requests>>
         /\ \E gone \in SUBSET Records : Clears(gone)
<1>1. CASE PurgeRow
  <2>1. UNCHANGED <<table, reports, idLock, rotation, retirable, requests>>
    BY <1>1, RowIsPurged DEF ghosts
  <2> QED
    BY <2>1, NoneIsSkipped DEF Clears
<1>2. CASE EndsPurge
  <2>1. UNCHANGED <<reports, idLock, retirable, requests>>
    BY <1>2, PurgeEnds
  <2> QED
    BY <1>2, <2>1, PurgeEnds DEF Clears
<1>3. ASSUME NEW r \in Records, DeleteMetadata(r)
      PROVE  UNCHANGED <<reports, idLock, retirable, requests>> /\ Clears({r})
  <2>1. SameBut({r})
    BY <1>3, RowsAreSkipped DEF DeleteMetadata
  <2> QED
    BY <1>3, <2>1 DEF DeleteMetadata, locks, Clears, IInv, Types
<1>4. ASSUME NEW p \in Processes, WriteMetadata(p)
      PROVE  UNCHANGED <<reports, idLock, retirable, requests>> /\ Clears({})
  <2> PICK r, e : r = process[p].pending.record /\ e = process[p].pending.envelope
    OBVIOUS
  <2>1. /\ process[p].pending # None /\ table' = [table EXCEPT ![r] = e]
        /\ UNCHANGED <<reports, idLock, rotation, retirable, requests>>
    BY <1>4 DEF WriteMetadata, locks
  <2>2. e # None
    BY <2>1, NoneIsNone DEF IInv, Types, Writing
  <2> QED
    BY <2>1, <2>2, NoneIsSkipped DEF Clears, IInv, Types
<1>5. ASSUME \/ \E p \in Processes, r \in Records, x \in Retention : Encrypt(p, r, x)
             \/ \E p \in Processes, i \in DOMAIN Rings : ChangeRing(p, i)
             \/ \E order \in SetToSeqs(Expired) : StartPurge(order)
      PROVE  UNCHANGED <<reports, idLock, retirable, requests>> /\ Clears({})
  <2>1. UNCHANGED <<table, reports, idLock, rotation, retirable, requests>>
    BY <1>5 DEF Encrypt, ChangeRing, StartPurge, locks, ghosts
  <2> QED
    BY <2>1, NoneIsSkipped DEF Clears
<1>6. \A r \in Records : {r} \in SUBSET Records
  OBVIOUS
<1> QED
  BY <1>1, <1>2, <1>3, <1>4, <1>5, <1>6 DEF ByOthers

ByRotation(t) ==
  \/ \E i \in Ids, s \in Sources, k \in Targets : Request(t, i, s, k)
  \/ Ends(t) \/ Working(t) \/ Commits(t)

LEMMA StepsAre == Steps => ByOthers \/ \E t \in Rotators : ByRotation(t)
BY DEF Steps, ByOthers, ByRotation, Working

HoldsId(t) ==
  /\ InTransaction(t) => idLock[rotation[t].id] = t /\ reports[rotation[t].id] = None
  /\ \A i \in Ids : idLock[i] = t => InTransaction(t) /\ rotation[t].id = i

LEMMA IdsAreHeldKept == ASSUME RotationAssumption, IInv, Steps PROVE IdsAreHeld'
<1>1. CASE ByOthers
  <2>1. UNCHANGED <<reports, idLock>> /\ \E gone : SameBut(gone)
    BY <1>1, OthersKeep DEF Clears
  <2>2. \A t \in Rotators : rotation'[t].pc = rotation[t].pc /\ rotation'[t].id = rotation[t].id
    BY <2>1 DEF SameBut
  <2> QED
    BY <2>1, <2>2 DEF IInv, IdsAreHeld, InTransaction
<1>2. ASSUME NEW t \in Rotators, ByRotation(t) PROVE IdsAreHeld'
  <2>1. \A u \in Rotators : HoldsId(u)
    BY DEF IInv, IdsAreHeld, HoldsId
  <2>2. \A u \in Rotators : InTransaction(u) => rotation[u].id \in Ids
    BY JobOf, JobFields DEF InTransaction
  <2>3. Others(t)
    BY <1>2, RequestSteps, WorkingKeeps DEF ByRotation, Ends, Commits, Onward
  <2>4. ASSUME NEW i \in Ids, NEW s \in Sources, NEW k \in Targets, Request(t, i, s, k)
        PROVE  \A u \in Rotators : HoldsId(u)'
    BY <2>1, <2>3, <2>4, RequestSteps DEF HoldsId, InTransaction, Others
  <2>5. ASSUME Ends(t) PROVE \A u \in Rotators : HoldsId(u)'
    <3>1. rotation'[t].pc = "idle" /\ \A i \in Ids : idLock'[i] # t
      BY <2>5, ReleaseTypes, HoldersDiffer DEF Ends, SettledRecords
    <3>2. \A u \in Rotators, i \in Ids : u # t => (idLock'[i] = u <=> idLock[i] = u)
      BY <2>5, ReleaseTypes, HoldersDiffer DEF Ends
    <3>3. reports' = reports
      BY <2>5 DEF Ends
    <3>4. HoldsId(t)'
      BY <3>1 DEF HoldsId, InTransaction
    <3>5. ASSUME NEW u \in Rotators, u # t PROVE HoldsId(u)'
      <4>1. rotation'[u] = rotation[u]
        BY <2>3, <3>5 DEF Others
      <4> QED
        BY <2>1, <2>2, <3>2, <3>3, <3>5, <4>1 DEF HoldsId, InTransaction
    <3> QED
      BY <3>4, <3>5
  <2>6. ASSUME Commits(t) PROVE \A u \in Rotators : HoldsId(u)'
    <3>1. rotation'[t].pc = "committed" /\ \A i \in Ids : idLock'[i] # t
      BY <2>6, ReleaseTypes, HoldersDiffer DEF Commits, Onward
    <3>2. \A u \in Rotators, i \in Ids : u # t => (idLock'[i] = u <=> idLock[i] = u)
      BY <2>6, ReleaseTypes, HoldersDiffer DEF Commits
    <3>3. idLock[rotation[t].id] = t /\ rotation[t].id \in Ids
      BY <2>1, <2>2, <2>6 DEF HoldsId, InTransaction, Commits
    <3>4. \A i \in Ids : i # rotation[t].id => reports'[i] = reports[i]
      BY <2>6, <3>3 DEF Commits, IInv, Types
    <3>5. HoldsId(t)'
      BY <3>1 DEF HoldsId, InTransaction
    <3>6. ASSUME NEW u \in Rotators, u # t PROVE HoldsId(u)'
      <4>1. rotation'[u] = rotation[u]
        BY <2>3, <3>6 DEF Others
      <4>2. InTransaction(u) => rotation[u].id # rotation[t].id
        BY <2>1, <3>3, <3>6 DEF HoldsId
      <4> QED
        BY <2>1, <2>2, <3>2, <3>4, <3>6, <4>1, <4>2 DEF HoldsId, InTransaction
    <3> QED
      BY <3>5, <3>6
  <2>7. ASSUME Begins(t) PROVE \A u \in Rotators : HoldsId(u)'
    <3> PICK i : i = rotation[t].id
      OBVIOUS
    <3>1. /\ i \in Ids /\ idLock[i] = Free /\ reports[i] = None /\ reports' = reports
          /\ rotation[t].pc = "requested"
          /\ rotation'[t].pc = "begun" /\ rotation'[t].id = i /\ idLock' = [idLock EXCEPT ![i] = t]
      BY <2>7, JobFields DEF Begins, Onward
    <3>2. idLock'[i] = t /\ \A j \in Ids : j # i => idLock'[j] = idLock[j]
      BY <3>1 DEF IInv, Types
    <3>3. HoldsId(t)'
      BY <2>1, <3>1, <3>2 DEF HoldsId, InTransaction
    <3>4. ASSUME NEW u \in Rotators, u # t PROVE HoldsId(u)'
      <4>1. rotation'[u] = rotation[u]
        BY <2>3, <3>4 DEF Others
      <4> QED
        BY <2>1, <2>2, <3>1, <3>2, <3>4, <4>1, HoldersDiffer DEF HoldsId, InTransaction
    <3> QED
      BY <3>3, <3>4
  <2>8. ASSUME Working(t), ~Begins(t) PROVE \A u \in Rotators : HoldsId(u)'
    <3>1. UNCHANGED <<idLock, reports>> /\ rotation'[t].id = rotation[t].id
          /\ rotation[t].pc \in {"begun", "locking", "rewrapping"}
          /\ rotation'[t].pc \in {"begun", "locking", "rewrapping"}
      BY <2>8 DEF Working, Selects, Turns, Locks, Rewraps, Onward
    <3> QED
      BY <2>1, <2>3, <3>1 DEF HoldsId, InTransaction, Others
  <2>9. \A u \in Rotators : HoldsId(u)'
    BY <1>2, <2>4, <2>5, <2>6, <2>7, <2>8 DEF ByRotation
  <2> QED
    BY <2>9 DEF IdsAreHeld, HoldsId, InTransaction
<1> QED
  BY <1>1, <1>2, StepsAre

LEMMA SelectedAreThereKept ==
  ASSUME RotationAssumption, IInv, Steps PROVE SelectedAreThere'
<1>1. CASE ByOthers
  <2>1. PICK gone \in SUBSET Records : Clears(gone)
    BY <1>1, OthersKeep
  <2>2. \A t \in Rotators : rotation[t].pc = "locking" => rotation[t].ids \subseteq Records
    BY JobOf, JobFields
  <2> QED
    BY <2>1, <2>2 DEF Clears, SameBut, IInv, SelectedAreThere
<1>2. ASSUME NEW t \in Rotators, ByRotation(t) PROVE SelectedAreThere'
  <2>1. Others(t)
    BY <1>2, RequestSteps, WorkingKeeps DEF ByRotation, Ends, Commits, Onward
  <2>2. \A r \in Records : table[r] # None => table'[r] # None
    <3>1. CASE Commits(t)
      <4>1. \A e : "key" \in DOMAIN Rewrapped(e, rotation[t].target)
        BY DEF Rewrapped, Envelope
      <4>2. "key" \notin DOMAIN None
        BY DEF None
      <4>3. \A r \in Records :
              table'[r] = table[r] \/ table'[r] = Rewrapped(table[r], rotation[t].target)
        BY <3>1, CommitsWhat
      <4> QED
        BY <4>1, <4>2, <4>3
    <3>2. CASE ~Commits(t)
      BY <1>2, <3>2, RequestSteps, WorkingKeeps DEF ByRotation, Ends
    <3> QED
      BY <3>1, <3>2
  <2>3. ASSUME rotation'[t].pc = "locking"
        PROVE  \A r \in rotation'[t].ids : r \in Records /\ table[r] # None
    <3>1. CASE Selects(t)
      BY <3>1 DEF Selects
    <3>2. ASSUME NEW r \in Records, Locks(t, r)
          PROVE  \A s \in rotation'[t].ids : s \in Records /\ table[s] # None
      <4>1. rotation[t].pc = "locking" /\ rotation'[t].ids \subseteq rotation[t].ids
        BY <3>2 DEF Locks
      <4>2. rotation[t].ids \subseteq Records
        BY <4>1, JobOf, JobFields
      <4> QED
        BY <4>1, <4>2 DEF IInv, SelectedAreThere
    <3>3. Selects(t) \/ \E r \in Records : Locks(t, r)
      BY <1>2, <2>3, RequestSteps
      DEF ByRotation, Working, Ends, SettledRecords, Begins, Turns, Rewraps, Commits, Onward
    <3> QED
      BY <3>1, <3>2, <3>3
  <2>4. \A u \in Rotators : u # t => rotation'[u] = rotation[u]
    BY <2>1 DEF Others
  <2>5. \A u \in Rotators : rotation[u].pc = "locking" => rotation[u].ids \subseteq Records
    BY JobOf, JobFields
  <2> QED
    BY <2>2, <2>3, <2>4, <2>5 DEF IInv, SelectedAreThere
<1> QED
  BY <1>1, <1>2, StepsAre
-----------------------------------------------------------------------------
(* Reports stay, and a rotation comes no further than it has.              *)

LEMMA ReportsStay ==
  ASSUME RotationAssumption, IInv, Steps
  PROVE  \A i \in Ids : reports[i] # None => reports'[i] = reports[i]
<1>1. CASE ByOthers
  BY <1>1, OthersKeep
<1>2. ASSUME NEW t \in Rotators, ByRotation(t), ~Commits(t) PROVE reports' = reports
  BY <1>2, RequestSteps, WorkingKeeps DEF ByRotation, Ends
<1>3. ASSUME NEW t \in Rotators, Commits(t), NEW i \in Ids, reports[i] # None
      PROVE  reports'[i] = reports[i]
  <2>1. rotation[t].id \in Ids /\ reports[rotation[t].id] = None
    BY <1>3, CommitsWhat DEF Commits, IInv, IdsAreHeld, InTransaction
  <2> QED
    BY <1>3, <2>1 DEF Commits, IInv, Types
<1> QED
  BY <1>1, <1>2, <1>3, StepsAre

LEMMA StagesKept == ASSUME RotationAssumption, IInv, Steps PROVE Stages'
<1>1. \A i \in Ids : reports[i] # None => reports'[i] = reports[i]
  BY ReportsStay
<1>2. \A u \in Rotators : rotation[u].pc # "idle" => rotation[u].id \in Ids
  BY JobOf, JobFields
<1>3. ASSUME NEW u \in Rotators,
             /\ rotation'[u].pc = rotation[u].pc /\ rotation'[u].id = rotation[u].id
             /\ rotation'[u].target = rotation[u].target
             /\ rotation'[u].rows = rotation[u].rows /\ rotation'[u].moved = rotation[u].moved
             /\ rotation[u].pc # "locking" => rotation'[u].ids = rotation[u].ids
      PROVE  Stage(u)'
  <2>1. Candidates(u)' = Candidates(u)
    BY <1>3 DEF Candidates
  <2> QED
    BY <1>1, <1>2, <1>3, <2>1 DEF IInv, Stages, Stage
<1>4. CASE ByOthers
  <2>1. PICK gone : SameBut(gone)
    BY <1>4, OthersKeep DEF Clears
  <2> QED
    BY <1>3, <2>1 DEF Stages, SameBut
<1>5. ASSUME NEW t \in Rotators, ByRotation(t) PROVE Stages'
  <2>1. Others(t)
    BY <1>5, RequestSteps, WorkingKeeps DEF ByRotation, Ends, Commits, Onward
  <2>2. Stage(t)
    BY DEF IInv, Stages
  <2>3. ASSUME NEW i \in Ids, NEW s \in Sources, NEW k \in Targets, Request(t, i, s, k)
        PROVE  Stage(t)'
    BY <2>3, RequestSteps DEF Stage
  <2>4. ASSUME Ends(t) PROVE Stage(t)'
    BY <2>4 DEF Ends, SettledRecords, Stage
  <2>5. ASSUME Commits(t) PROVE Stage(t)'
    <3> PICK report : report = [target |-> rotation[t].target, records |-> DOMAIN rotation[t].moved]
      OBVIOUS
    <3>1. rotation[t].id \in Ids /\ report \in Reports /\ report.target = rotation[t].target
      BY <2>5, CommitsWhat DEF Reports
    <3>2. reports'[rotation[t].id] = report /\ report # None
      BY <2>5, <3>1, NoneIsNone DEF Commits, IInv, Types
    <3>3. /\ rotation'[t].pc = "committed" /\ rotation'[t].id = rotation[t].id
          /\ rotation'[t].target = rotation[t].target
      BY <2>5 DEF Commits, Onward
    <3> QED
      BY <3>1, <3>2, <3>3 DEF Stage
  <2>6. ASSUME Begins(t) \/ Selects(t) PROVE Stage(t)'
    BY <2>2, <2>6 DEF Stage, Begins, Selects, Onward, SameRows, SameMoved
  <2>7. ASSUME NEW r \in Records, Locks(t, r) PROVE Stage(t)'
    BY <2>2, <2>7 DEF Stage, Locks, Onward, SameMoved
  <2>8. ASSUME Turns(t) PROVE Stage(t)'
    <3>1. Candidates(t)' = Candidates(t)
      BY <2>8 DEF Candidates, Turns, Onward, SameRows
    <3> QED
      BY <2>2, <2>8, <3>1 DEF Stage, Turns, Onward, SameRows, SameMoved
  <2>9. ASSUME NEW r \in Records, Rewraps(t, r) PROVE Stage(t)'
    <3>1. Candidates(t)' = Candidates(t)
      BY <2>9 DEF Candidates, Rewraps, Onward, SameRows
    <3>2. r \in Candidates(t)
      BY <2>9 DEF Rewraps, Left
    <3>3. /\ rotation[t].pc = "rewrapping" /\ rotation'[t].pc = "rewrapping"
          /\ rotation'[t].target = rotation[t].target
          /\ rotation'[t].ids = rotation[t].ids /\ rotation'[t].rows = rotation[t].rows
          /\ DOMAIN rotation'[t].moved = DOMAIN rotation[t].moved \cup {r}
          /\ rotation'[t].moved[r] = Rewrapped(rotation[t].rows[r], rotation[t].target)
          /\ \A s \in DOMAIN rotation[t].moved :
               s # r => rotation'[t].moved[s] = rotation[t].moved[s]
      BY <2>9 DEF Rewraps, Onward, SameRows
    <3> QED
      BY <2>2, <3>1, <3>2, <3>3 DEF Stage
  <2>10. Stage(t)'
    BY <1>5, <2>3, <2>4, <2>5, <2>6, <2>7, <2>8, <2>9 DEF ByRotation, Working
  <2>11. \A u \in Rotators : u # t => Stage(u)'
    BY <1>3, <2>1 DEF Others
  <2> QED
    BY <2>10, <2>11 DEF Stages
<1> QED
  BY <1>4, <1>5, StepsAre

LEMMA AnswersAgreeKept == ASSUME RotationAssumption, IInv, Steps PROVE AnswersAgree'
<1>1. \A i \in Ids : reports[i] # None => reports'[i] = reports[i]
  BY ReportsStay
<1>2. ASSUME NEW u \in Rotators, rotation[u].result # None,
             rotation[u].result.outcome \in {"rotated", "duplicate"}
      PROVE  /\ reports'[rotation[u].result.id] # None
             /\ reports'[rotation[u].result.id].target = rotation[u].result.target
  <2>1. rotation[u].result.id \in Ids
    BY <1>2, JobFields DEF IInv, Types, SettledRecords, Results
  <2>2. /\ reports[rotation[u].result.id] # None
        /\ reports[rotation[u].result.id].target = rotation[u].result.target
    BY <1>2 DEF IInv, AnswersAgree
  <2> QED
    BY <1>1, <2>1, <2>2
<1>3. CASE ByOthers
  <2>1. \A u \in Rotators : rotation'[u].result = rotation[u].result
    BY <1>3, OthersKeep DEF Clears, SameBut
  <2> QED
    BY <1>2, <2>1 DEF AnswersAgree
<1>4. ASSUME NEW t \in Rotators, ByRotation(t) PROVE AnswersAgree'
  <2>1. Others(t)
    BY <1>4, RequestSteps, WorkingKeeps DEF ByRotation, Ends, Commits, Onward
  <2>2. CASE Ends(t)
    BY <1>2, <2>1, <2>2 DEF Ends, Agrees, Others, AnswersAgree
  <2>3. CASE ~Ends(t)
    <3>1. rotation'[t] \in Jobs
      BY <1>4, <2>3, RequestSteps, WorkingKeeps DEF ByRotation, Commits, Onward
    <3>2. rotation'[t].result = None
      BY <3>1, JobFields
    <3> QED
      BY <1>2, <2>1, <3>2 DEF Others, AnswersAgree
  <2> QED
    BY <2>2, <2>3
<1> QED
  BY <1>3, <1>4, StepsAre

-----------------------------------------------------------------------------
(* What is written.                                                        *)

\* Records keep their content, and the latest write what it says of them, or
\* lose it together.
ContentsKept ==
  \A r \in Records :
    \/ /\ table[r] # None /\ table'[r] # None /\ table'[r].content = table[r].content
       /\ latest'[r] = latest[r]
    \/ table'[r] = None /\ latest'[r] = 0

LEMMA WritesKept ==
  ASSUME IInv, ContentsKept, UNCHANGED <<process, writes>>
  PROVE  Fresh' /\ NoWriteIsLost'
BY DEF IInv, Fresh, NoWriteIsLost, ContentsKept

LEMMA TableKept ==
  ASSUME IInv, UNCHANGED <<table, latest, process, writes>>
  PROVE  Fresh' /\ NoWriteIsLost'
BY DEF IInv, Fresh, NoWriteIsLost

LEMMA WritesSound == ASSUME RotationAssumption, IInv, Steps PROVE Fresh' /\ NoWriteIsLost'
<1>1. ASSUME NEW p \in Processes, NEW r \in Records, NEW x \in Retention, Encrypt(p, r, x)
      PROVE  Fresh' /\ NoWriteIsLost'
  <2> PICK k, e : k = Key(Rings[process[p].ring]) /\ e = Envelope(k, k, writes', x)
    OBVIOUS
  <2>1. /\ process' = [process EXCEPT ![p].pending = [record |-> r, envelope |-> e]]
        /\ writes' = writes + 1 /\ table' = table /\ latest' = latest
    BY <1>1 DEF Encrypt, ghosts
  <2>2. e.content = writes + 1
    BY <2>1 DEF Envelope
  <2>3. /\ process'[p].pending.envelope = e
        /\ \A q \in Processes : q # p => process'[q] = process[q]
    BY <2>1 DEF IInv, Types
  <2>4. /\ writes \in Nat
        /\ \A s \in Records : table[s] # None => table[s].content \in Nat /\ table[s].content <= writes
        /\ \A q \in Processes : process[q].pending # None =>
             /\ process[q].pending.envelope.content \in Nat
             /\ process[q].pending.envelope.content <= writes
    <3>1. \A e1 \in Envelopes : e1.content \in Nat
      BY DEF Envelopes, RotationAssumption
    <3>2. \A w \in Writing : w.envelope \in Envelopes
      BY DEF Writing
    <3>3. \A s \in Records : table[s] \in Envelopes \cup {None}
      BY DEF IInv, Types
    <3>4. \A q \in Processes : process[q].pending \in Writing \cup {None}
      BY DEF IInv, Types
    <3>5. writes \in Nat
      BY DEF IInv, Types, RotationAssumption
    <3> QED
      BY <3>1, <3>2, <3>3, <3>4, <3>5 DEF IInv, Fresh
  <2>5. \A s \in Records : table[s] # None => table[s].content < writes'
    BY <2>1, <2>4
  <2>6. \A q \in Processes : q # p /\ process[q].pending # None =>
          process[q].pending.envelope.content < writes'
    BY <2>1, <2>4
  <2>7. \A s \in Records : table[s] # None => table[s].content <= writes' /\ table[s].content # e.content
    BY <2>1, <2>2, <2>4, <2>5
  <2>8. \A q \in Processes : q # p /\ process[q].pending # None =>
          /\ process[q].pending.envelope.content <= writes'
          /\ process[q].pending.envelope.content # e.content
    BY <2>1, <2>2, <2>4, <2>6
  <2>9. e.content <= writes'
    BY <2>1, <2>2, <2>4
  <2>10. Fresh'
    <3>1. ASSUME NEW q \in Processes, process'[q].pending # None
          PROVE  /\ process'[q].pending.envelope.content <= writes'
                 /\ \A s \in Records : table[s] # None =>
                      table[s].content # process'[q].pending.envelope.content
                 /\ \A u \in Processes \ {q} : process'[u].pending # None =>
                      process'[u].pending.envelope.content # process'[q].pending.envelope.content
      <4>1. CASE q = p
        BY <2>3, <2>7, <2>8, <2>9, <4>1
      <4>2. CASE q # p
        BY <2>3, <2>8, <3>1, <4>2 DEF IInv, Fresh
      <4> QED
        BY <4>1, <4>2
    <3> QED
      BY <2>1, <2>7, <3>1 DEF Fresh
  <2> QED
    BY <2>1, <2>10 DEF IInv, NoWriteIsLost
<1>2. ASSUME NEW p \in Processes, WriteMetadata(p) PROVE Fresh' /\ NoWriteIsLost'
  <2> PICK r, e : r = process[p].pending.record /\ e = process[p].pending.envelope
    OBVIOUS
  <2>1. /\ process[p].pending # None /\ table' = [table EXCEPT ![r] = e]
        /\ latest' = [latest EXCEPT ![r] = e.content]
        /\ process' = [process EXCEPT ![p].pending = None] /\ writes' = writes
    BY <1>2 DEF WriteMetadata
  <2>2. r \in Records /\ e \in Envelopes /\ e # None
    BY <2>1, NoneIsNone DEF IInv, Types, Writing
  <2>3. /\ table'[r] = e /\ latest'[r] = e.content
        /\ \A s \in Records : s # r => table'[s] = table[s] /\ latest'[s] = latest[s]
        /\ process'[p].pending = None
        /\ \A q \in Processes : q # p => process'[q] = process[q]
    BY <2>1, <2>2 DEF IInv, Types
  <2>4. Fresh'
    BY <2>1, <2>2, <2>3 DEF IInv, Fresh
  <2> QED
    BY <2>2, <2>3, <2>4 DEF IInv, NoWriteIsLost
<1>3. ASSUME NEW p \in Processes, NEW i \in DOMAIN Rings, ChangeRing(p, i)
      PROVE  Fresh' /\ NoWriteIsLost'
  <2>1. /\ process' = [process EXCEPT ![p] = [ring |-> i, pending |-> None]]
        /\ UNCHANGED <<table, latest, writes>>
    BY <1>3 DEF ChangeRing, ghosts
  <2>2. /\ process'[p].pending = None
        /\ \A q \in Processes : q # p => process'[q] = process[q]
    BY <2>1 DEF IInv, Types
  <2> QED
    BY <2>1, <2>2 DEF IInv, Fresh, NoWriteIsLost
<1>4. ASSUME NEW r \in Records, DeleteMetadata(r) PROVE Fresh' /\ NoWriteIsLost'
  <2>1. ContentsKept /\ UNCHANGED <<process, writes>>
    BY <1>4 DEF DeleteMetadata, ContentsKept, IInv, Types, NoWriteIsLost
  <2> QED
    BY <2>1, WritesKept
<1>5. CASE EndsPurge
  <2>1. ContentsKept /\ UNCHANGED <<process, writes>>
    BY <1>5, PurgeEnds DEF ContentsKept, IInv, NoWriteIsLost
  <2> QED
    BY <2>1, WritesKept
<1>6. ASSUME NEW t \in Rotators, Commits(t) PROVE Fresh' /\ NoWriteIsLost'
  <2>1. \A e \in Envelopes : Rewrapped(e, rotation[t].target).content = e.content
    BY DEF Rewrapped, Envelope
  <2>2. \A e \in Envelopes : Rewrapped(e, rotation[t].target) # None
    <3>1. \A e \in Envelopes : "key" \in DOMAIN Rewrapped(e, rotation[t].target)
      BY DEF Rewrapped, Envelope
    <3>2. "key" \notin DOMAIN None
      BY DEF None
    <3> QED
      BY <3>1, <3>2
  <2>3. UNCHANGED <<latest, process, writes>>
    BY <1>6 DEF Commits, Onward
  <2>4. ContentsKept
    BY <1>6, <2>1, <2>2, <2>3, CommitsWhat, NoneIsNone DEF ContentsKept, IInv, NoWriteIsLost
  <2> QED
    BY <2>3, <2>4, WritesKept
<1>7. ASSUME \/ \E order \in SetToSeqs(Expired) : StartPurge(order)
             \/ PurgeRow
             \/ \E t \in Rotators : ByRotation(t) /\ ~Commits(t)
      PROVE  UNCHANGED <<table, latest, process, writes>>
  <2>1. ASSUME NEW order \in SetToSeqs(Expired), StartPurge(order)
        PROVE  UNCHANGED <<table, latest, process, writes>>
    BY <2>1 DEF StartPurge, ghosts
  <2>2. CASE PurgeRow
    BY <2>2, RowIsPurged DEF ghosts
  <2>3. ASSUME NEW t \in Rotators, ByRotation(t), ~Commits(t)
        PROVE  UNCHANGED <<table, latest, process, writes>>
    BY <2>3, RequestSteps, WorkingKeeps DEF ByRotation, Ends
  <2> QED
    BY <1>7, <2>1, <2>2, <2>3
<1> QED
  BY <1>1, <1>2, <1>3, <1>4, <1>5, <1>6, <1>7, TableKept, StepsAre DEF ByOthers

LEMMA Invariant == ASSUME RotationAssumption PROVE Spec => []IInv
<1>1. IInv /\ [Next]_vars => IInv'
  <2> SUFFICES ASSUME IInv, [Next]_vars PROVE IInv'
    OBVIOUS
  <2>1. CASE Next
    BY <2>1, NextSteps, TypesKept, RowsAreHeldKept, DoomedAreHeldKept, IdsAreHeldKept,
       SelectedAreThereKept, StagesKept, AnswersAgreeKept, WritesSound DEF IInv
  <2>2. CASE UNCHANGED vars
    BY <2>2 DEF vars, locks, ghosts, IInv, Types, RowsAreHeld, DoomedAreHeld, IdsAreHeld,
       SelectedAreThere, Stages, Stage, Candidates, Fresh, NoWriteIsLost, AnswersAgree, AtWork,
       InTransaction
  <2> QED
    BY <2>1, <2>2
<1> QED
  BY <1>1, InitInvariant, PTL DEF Spec
-----------------------------------------------------------------------------
(* Theorems.                                                               *)

\* The table holds envelopes, a report names the records it moved, and locks
\* are held only by a rotation under way or by the purge.
THEOREM TypeCorrect == ASSUME RotationAssumption PROVE Spec => []TypeOK
<1>1. IInv => TypeOK
  <2> SUFFICES ASSUME IInv PROVE TypeOK
    OBVIOUS
  <2>1. table \in [Records -> Envelopes \union {None}]
    BY DEF IInv, Types
  <2>2. \A i \in Ids : reports[i] # None =>
          reports[i].target \in Targets /\ reports[i].records \in (SUBSET Records) \ {{}}
    BY DEF IInv, Types, Reports
  <2>3. ASSUME NEW t \in Rotators, rotation[t].pc \in {"idle", "requested", "committed"}
        PROVE  /\ \A r \in Records : rowLock[r] # t
               /\ \A i \in Ids : idLock[i] # t
    BY <2>3 DEF IInv, RowsAreHeld, IdsAreHeld, AtWork, InTransaction
  <2>4. \A r \in Records : rowLock[r] = Purger => purge # None /\ r \in purge.doomed
    BY DEF IInv, DoomedAreHeld
  <2> QED
    BY <2>1, <2>2, <2>3, <2>4 DEF TypeOK
<1> QED
  BY <1>1, Invariant, PTL

\* No write that was committed while a rotation selected and rewrapped is
\* overwritten by it, and no deletion undone.
THEOREM WritesAreKept == ASSUME RotationAssumption PROVE Spec => []NoWriteIsLost
<1>1. IInv => NoWriteIsLost
  BY DEF IInv
<1> QED
  BY <1>1, Invariant, PTL

\* Who is told that its rotation was done, at once or as a duplicate, finds a
\* report of the target it asked for.
THEOREM AnswersStayTrue == ASSUME RotationAssumption PROVE Spec => []AnswersAgree
<1>1. IInv => AnswersAgree
  BY DEF IInv
<1> QED
  BY <1>1, Invariant, PTL

LEMMA CommitIsReported ==
  ASSUME RotationAssumption, IInv, NEW t \in Rotators, Commits(t)
  PROVE  /\ rotation[t].id \in Ids /\ reports[rotation[t].id] = None
         /\ reports'[rotation[t].id] # None
         /\ \A i \in Ids : i # rotation[t].id => reports'[i] = reports[i]
         /\ reports'[rotation[t].id].records = Moved
         /\ \A r \in Moved : table'[r].key = reports'[rotation[t].id].target
<1> PICK report : report = [target |-> rotation[t].target, records |-> DOMAIN rotation[t].moved]
  OBVIOUS
<1>1. /\ rotation[t].id \in Ids /\ report \in Reports /\ report.target = rotation[t].target
      /\ report.records = DOMAIN rotation[t].moved
  BY CommitsWhat DEF Reports
<1>2. /\ reports'[rotation[t].id] = report /\ report # None
      /\ \A i \in Ids : i # rotation[t].id => reports'[i] = reports[i]
  BY <1>1, NoneIsNone DEF Commits, IInv, Types
<1>3. reports[rotation[t].id] = None
  BY DEF Commits, IInv, IdsAreHeld, InTransaction
<1>4. \A e \in Envelopes : /\ Rewrapped(e, rotation[t].target) # None
                           /\ Rewrapped(e, rotation[t].target).content = e.content
                           /\ Rewrapped(e, rotation[t].target).key = rotation[t].target
  <2>1. \A e \in Envelopes : "key" \in DOMAIN Rewrapped(e, rotation[t].target)
    BY DEF Rewrapped, Envelope
  <2>2. "key" \notin DOMAIN None
    BY DEF None
  <2> QED
    BY <2>1, <2>2 DEF Rewrapped, Envelope
<1>5. \A r \in Records : r \in Moved <=> r \in DOMAIN rotation[t].moved
  BY <1>4, CommitsWhat, NoneIsNone DEF Moved
<1>6. Moved = DOMAIN rotation[t].moved
  BY <1>5, CommitsWhat DEF Moved
<1>7. \A r \in DOMAIN rotation[t].moved : table'[r].key = rotation[t].target
  BY <1>4, CommitsWhat
<1> QED
  BY <1>1, <1>2, <1>3, <1>6, <1>7

\* Records change keys without changing content only in the step that leaves
\* the report which names just them, under the target it names; and a report
\* never changes.
THEOREM RotationIsOneStep == ASSUME RotationAssumption PROVE Spec => [][RotationStep]_vars
<1>1. IInv /\ [Next]_vars => [RotationStep]_vars
  <2> SUFFICES ASSUME IInv, Next PROVE RotationStep
    OBVIOUS
  <2>1. Steps
    BY NextSteps
  <2>2. \A i \in Ids : reports[i] # None => reports'[i] = reports[i]
    BY <2>1, ReportsStay
  <2>3. ASSUME NEW t \in Rotators, Commits(t) PROVE RotationStep
    BY <2>2, <2>3, CommitIsReported DEF RotationStep
  <2>4. CASE ~\E t \in Rotators : Commits(t)
    <3>1. reports' = reports
      <4>1. ASSUME NEW t \in Rotators, ByRotation(t) PROVE reports' = reports
        BY <2>4, <4>1, RequestSteps, WorkingKeeps DEF ByRotation, Ends
      <4> QED
        BY <2>1, <4>1, OthersKeep, StepsAre
    <3>2. ASSUME NEW p \in Processes, WriteMetadata(p) PROVE Moved = {}
      <4> PICK r, e : r = process[p].pending.record /\ e = process[p].pending.envelope
        OBVIOUS
      <4>1. /\ process[p].pending # None /\ table' = [table EXCEPT ![r] = e]
        BY <3>2 DEF WriteMetadata
      <4>2. \A s \in Records : table'[s] = IF s = r THEN e ELSE table[s]
        BY <4>1 DEF IInv, Types
      <4>3. \A s \in Records : table[s] # None => table[s].content # e.content
        BY <4>1 DEF IInv, Fresh
      <4> QED
        BY <4>2, <4>3 DEF Moved
    <3>3. ASSUME NEW r \in Records, DeleteMetadata(r) PROVE Moved = {}
      BY <3>3 DEF DeleteMetadata, IInv, Types, Moved
    <3>4. ASSUME EndsPurge PROVE Moved = {}
      BY <3>4, PurgeEnds DEF Moved
    <3>5. ASSUME \/ \E p \in Processes, r \in Records, x \in Retention : Encrypt(p, r, x)
                 \/ \E p \in Processes, i \in DOMAIN Rings : ChangeRing(p, i)
                 \/ \E order \in SetToSeqs(Expired) : StartPurge(order)
                 \/ PurgeRow
                 \/ \E t \in Rotators : ByRotation(t)
          PROVE  table' = table
      <4>1. ASSUME NEW t \in Rotators, ByRotation(t) PROVE table' = table
        BY <2>4, <4>1, RequestSteps, WorkingKeeps DEF ByRotation, Ends
      <4>2. CASE PurgeRow
        BY <4>2, RowIsPurged
      <4> QED
        BY <3>5, <4>1, <4>2 DEF Encrypt, ChangeRing, StartPurge
    <3>6. Moved = {} \/ table' = table
      BY <2>1, <3>2, <3>3, <3>4, <3>5, StepsAre DEF ByOthers
    <3>7. Moved = {}
      BY <3>6 DEF Moved
    <3> QED
      BY <3>1, <3>7 DEF RotationStep
  <2> QED
    BY <2>3, <2>4
<1> QED
  BY <1>1, Invariant, PTL DEF Spec
-----------------------------------------------------------------------------
(* Reading, while the procedure is followed.                               *)

PInv == IInv /\ Procedure

LEMMA InitProcedure == RotationAssumption /\ Init => Procedure
<1> SUFFICES ASSUME RotationAssumption, Init PROVE Procedure
  OBVIOUS
<1>1. /\ \A p \in Processes : process[p].ring = 1 /\ process[p].pending = None
      /\ \A r \in Records : table[r] = None
      /\ \A t \in Rotators : rotation[t].pc = "idle"
      /\ retirable = FALSE
  BY DEF Init, Settled
<1>2. WritersAreRead
  BY <1>1, KeysTyped DEF WritersAreRead, HoldsAll
<1> QED
  BY <1>1, <1>2 DEF Procedure, RecordsAreRead, PendingIsCurrent, TargetsAreHeld, CleanSeesAll,
     RetirableIsClean, AtWork

RingsSame == \A p \in Processes : process'[p].ring = process[p].ring

LEMMA RingsSameKeeps ==
  ASSUME RingsSame, NEW k
  PROVE  /\ (\A p \in Processes : k \in KeysOf(Rings[process'[p].ring])) <=> HoldsAll(k)
         /\ (\A p \in Processes : Key(Rings[process'[p].ring]) = k) <=> AllWriteUnder(k)
BY DEF RingsSame, HoldsAll, AllWriteUnder

LEMMA TargetIsLast ==
  ASSUME ProcedureAssumption, IInv, NEW t \in Rotators, rotation[t].pc # "idle"
  PROVE  rotation[t].target = LastKey
BY JobOf, JobFields DEF ProcedureAssumption

(* A process is given the next ring.                                       *)
LEMMA RingChanges ==
  ASSUME RotationAssumption, ProcedureAssumption, PInv,
         NEW p \in Processes, NEW i \in DOMAIN Rings, ChangeRing(p, i)
  PROVE  Procedure'
<1>1. /\ i = process[p].ring + 1
      /\ \A q \in Processes : Key(Rings[i]) \in KeysOf(Rings[process[q].ring])
      /\ KeysOf(Rings[process[p].ring]) \subseteq KeysOf(Rings[i]) \/ retirable
      /\ UNCHANGED <<table, rotation, retirable>>
  BY DEF ChangeRing, MayChangeRing, ProcedureAssumption, ghosts
<1>2. /\ process'[p].ring = i /\ process'[p].pending = None
      /\ \A q \in Processes : q # p => process'[q] = process[q]
      /\ process[p].ring \in DOMAIN Rings
  BY DEF ChangeRing, PInv, IInv, Types
<1>3. Key(Rings[process[p].ring]) = LastKey => Key(Rings[i]) = LastKey
  <2>1. process[p].ring <= i
    BY <1>1, <1>2, KeysTyped
  <2> QED
    BY <1>2, <2>1 DEF ProcedureAssumption
<1>4. Key(Rings[i]) \in KeysOf(Rings[i])
  BY KeysTyped
<1>5. AllWriteUnder(LastKey) => AllWriteUnder(LastKey)'
  BY <1>2, <1>3 DEF AllWriteUnder
<1>6. ASSUME NEW k, HoldsAll(k), retirable => k = LastKey
      PROVE  \A q \in Processes : k \in KeysOf(Rings[process'[q].ring])
  <2>1. \A q \in Processes : q # p => k \in KeysOf(Rings[process'[q].ring])
    BY <1>2, <1>6 DEF HoldsAll
  <2>2. CASE KeysOf(Rings[process[p].ring]) \subseteq KeysOf(Rings[i])
    BY <1>2, <1>6, <2>1, <2>2 DEF HoldsAll
  <2>3. CASE retirable
    <3>1. Key(Rings[process[p].ring]) = LastKey
      BY <2>3 DEF PInv, Procedure, RetirableIsClean, AllWriteUnder
    <3> QED
      BY <1>2, <1>3, <1>4, <1>6, <2>1, <2>3, <3>1
  <2> QED
    BY <1>1, <2>2, <2>3
<1>7. WritersAreRead'
  <2> SUFFICES ASSUME NEW q \in Processes
               PROVE  \A s \in Processes :
                        Key(Rings[process'[q].ring]) \in KeysOf(Rings[process'[s].ring])
    BY DEF WritersAreRead, HoldsAll
  <2>1. CASE q = p
    BY <1>1, <1>2, <1>4, <2>1
  <2>2. CASE q # p
    <3> PICK k : k = Key(Rings[process[q].ring])
      OBVIOUS
    <3>1. HoldsAll(k) /\ (retirable => k = LastKey)
      BY DEF PInv, Procedure, WritersAreRead, RetirableIsClean, AllWriteUnder
    <3> QED
      BY <1>2, <1>6, <2>2, <3>1
  <2> QED
    BY <2>1, <2>2
<1>8. RecordsAreRead'
  <2> SUFFICES ASSUME NEW r \in Records, table[r] # None
               PROVE  /\ \A q \in Processes : table[r].key \in KeysOf(Rings[process'[q].ring])
                      /\ table[r].under = table[r].key
    BY <1>1 DEF RecordsAreRead, HoldsAll
  <2>1. /\ HoldsAll(table[r].key) /\ table[r].under = table[r].key
        /\ retirable => table[r].key = LastKey
    BY DEF PInv, Procedure, RecordsAreRead, RetirableIsClean, UnderLast
  <2> QED
    BY <1>6, <2>1
<1>9. PendingIsCurrent'
  BY <1>2 DEF PInv, Procedure, PendingIsCurrent
<1>10. TargetsAreHeld'
  <2> SUFFICES ASSUME NEW t \in Rotators, rotation[t].pc # "idle"
               PROVE  \A q \in Processes : rotation[t].target \in KeysOf(Rings[process'[q].ring])
    BY <1>1 DEF TargetsAreHeld, HoldsAll
  <2>1. HoldsAll(rotation[t].target) /\ rotation[t].target = LastKey
    BY TargetIsLast DEF PInv, Procedure, TargetsAreHeld
  <2> QED
    BY <1>6, <2>1
<1>11. CleanSeesAll'
  <2>1. \A r \in Records : UnderLast(r)' = UnderLast(r)
    BY <1>1 DEF UnderLast
  <2> QED
    BY <1>1, <1>5, <2>1 DEF PInv, Procedure, CleanSeesAll, AtWork
<1>12. RetirableIsClean'
  BY <1>1, <1>5 DEF PInv, Procedure, RetirableIsClean, UnderLast
<1> QED
  BY <1>7, <1>8, <1>9, <1>10, <1>11, <1>12 DEF Procedure

(* The table changes, under rings that stay: what is written anew is read  *)
(* by all, and under the last key once everyone writes under it.           *)
ReadByAll(e) == HoldsAll(e.key) /\ e.under = e.key
TableIsRead ==
  \A r \in Records :
    \/ table'[r] = table[r] \/ table'[r] = None
    \/ ReadByAll(table'[r]) /\ (AllWriteUnder(LastKey) => table'[r].key = LastKey)

LEMMA TableChanges ==
  ASSUME PInv, RingsSame, TableIsRead
  PROVE  /\ WritersAreRead' /\ RecordsAreRead'
         /\ \A gone : SameBut(gone) /\ (\A r \in gone : table'[r] = None)
                     => TargetsAreHeld' /\ CleanSeesAll'
         /\ retirable' = retirable => RetirableIsClean'
         /\ \A r \in Records : AllWriteUnder(LastKey) /\ UnderLast(r) => UnderLast(r)'
         /\ AllWriteUnder(LastKey)' = AllWriteUnder(LastKey)
<1>1. WritersAreRead'
  BY DEF RingsSame, PInv, Procedure, WritersAreRead, HoldsAll
<1>2. RecordsAreRead'
  <2> SUFFICES ASSUME NEW r \in Records, table'[r] # None
               PROVE  /\ \A q \in Processes : table'[r].key \in KeysOf(Rings[process'[q].ring])
                      /\ table'[r].under = table'[r].key
    BY DEF RecordsAreRead, HoldsAll
  <2>1. ReadByAll(table'[r])
    BY DEF TableIsRead, ReadByAll, PInv, Procedure, RecordsAreRead
  <2> QED
    BY <2>1, RingsSameKeeps DEF ReadByAll
<1>3. AllWriteUnder(LastKey)' = AllWriteUnder(LastKey)
  BY DEF RingsSame, AllWriteUnder
<1>4. \A r \in Records : AllWriteUnder(LastKey) /\ UnderLast(r) => UnderLast(r)'
  BY DEF TableIsRead, UnderLast
<1>5. ASSUME NEW gone, SameBut(gone) PROVE TargetsAreHeld'
  BY <1>5 DEF SameBut, RingsSame, PInv, Procedure, TargetsAreHeld, HoldsAll
<1>6. ASSUME NEW gone, SameBut(gone), \A r \in gone : table'[r] = None PROVE CleanSeesAll'
  <2>1. \A r \in gone : UnderLast(r)'
    BY <1>6 DEF UnderLast
  <2> QED
    BY <1>3, <1>4, <1>6, <2>1 DEF SameBut, PInv, Procedure, CleanSeesAll, AtWork
<1>7. retirable' = retirable => RetirableIsClean'
  BY <1>3, <1>4 DEF PInv, Procedure, RetirableIsClean
<1> QED
  BY <1>1, <1>2, <1>3, <1>4, <1>5, <1>6, <1>7

LEMMA WriterReads ==
  ASSUME RotationAssumption, ProcedureAssumption, PInv, ByOthers
  PROVE  Procedure'
<1>1. ASSUME NEW p \in Processes, NEW i \in DOMAIN Rings, ChangeRing(p, i) PROVE Procedure'
  BY <1>1, RingChanges
<1>2. /\ \E gone : SameBut(gone) /\ \A r \in gone : table'[r] = None
      /\ retirable' = retirable
  BY OthersKeep DEF PInv, Clears
<1>3. ASSUME NEW p \in Processes, NEW r \in Records, NEW x \in Retention, Encrypt(p, r, x)
      PROVE  Procedure'
  <2> PICK k, e : k = Key(Rings[process[p].ring]) /\ e = Envelope(k, k, writes', x)
    OBVIOUS
  <2>1. /\ process' = [process EXCEPT ![p].pending = [record |-> r, envelope |-> e]]
        /\ table' = table
    BY <1>3 DEF Encrypt
  <2>2. /\ process'[p].pending.envelope = e /\ process'[p].ring = process[p].ring
        /\ \A q \in Processes : q # p => process'[q] = process[q]
    BY <2>1 DEF PInv, IInv, Types
  <2>3. RingsSame /\ TableIsRead
    BY <2>1, <2>2 DEF RingsSame, TableIsRead
  <2>4. e.key = k /\ e.under = k
    BY DEF Envelope
  <2>5. PendingIsCurrent'
    BY <2>2, <2>4 DEF PInv, Procedure, PendingIsCurrent
  <2> QED
    BY <1>2, <2>3, <2>5, TableChanges DEF Procedure
<1>4. ASSUME NEW p \in Processes, WriteMetadata(p) PROVE Procedure'
  <2> PICK r, e : r = process[p].pending.record /\ e = process[p].pending.envelope
    OBVIOUS
  <2>1. /\ process[p].pending # None /\ table' = [table EXCEPT ![r] = e]
        /\ process' = [process EXCEPT ![p].pending = None]
    BY <1>4 DEF WriteMetadata
  <2>2. /\ process'[p].pending = None /\ process'[p].ring = process[p].ring
        /\ \A q \in Processes : q # p => process'[q] = process[q]
        /\ \A s \in Records : table'[s] = IF s = r THEN e ELSE table[s]
    BY <2>1 DEF PInv, IInv, Types
  <2>3. e.key = Key(Rings[process[p].ring]) /\ e.under = e.key
    BY <2>1 DEF PInv, Procedure, PendingIsCurrent
  <2>4. ReadByAll(e) /\ (AllWriteUnder(LastKey) => e.key = LastKey)
    BY <2>3 DEF ReadByAll, PInv, Procedure, WritersAreRead, AllWriteUnder
  <2>5. RingsSame /\ TableIsRead
    BY <2>2, <2>4 DEF RingsSame, TableIsRead
  <2>6. PendingIsCurrent'
    BY <2>2 DEF PInv, Procedure, PendingIsCurrent
  <2> QED
    BY <1>2, <2>5, <2>6, TableChanges DEF Procedure
<1>5. ASSUME \/ \E r \in Records : DeleteMetadata(r)
             \/ \E order \in SetToSeqs(Expired) : StartPurge(order)
             \/ PurgeRow
             \/ EndsPurge
      PROVE  Procedure'
  <2>1. ASSUME NEW r \in Records, DeleteMetadata(r)
        PROVE  process' = process /\ TableIsRead
    BY <2>1 DEF DeleteMetadata, PInv, IInv, Types, TableIsRead
  <2>2. ASSUME NEW order \in SetToSeqs(Expired), StartPurge(order)
        PROVE  process' = process /\ TableIsRead
    BY <2>2 DEF StartPurge, TableIsRead
  <2>3. PurgeRow => process' = process /\ TableIsRead
    BY RowIsPurged DEF PInv, TableIsRead
  <2>4. EndsPurge => process' = process /\ TableIsRead
    BY PurgeEnds DEF PInv, TableIsRead
  <2>5. process' = process /\ TableIsRead
    BY <1>5, <2>1, <2>2, <2>3, <2>4
  <2>6. RingsSame /\ PendingIsCurrent'
    BY <2>5 DEF RingsSame, PInv, Procedure, PendingIsCurrent
  <2> QED
    BY <1>2, <2>5, <2>6, TableChanges DEF Procedure
<1> QED
  BY <1>1, <1>3, <1>4, <1>5 DEF ByOthers

(* One rotation moves.                                                     *)
CleanSees(t) ==
  AtWork(t) /\ rotation[t].clean =>
    /\ AllWriteUnder(LastKey)
    /\ \A r \in Records : UnderLast(r) \/ r \in rotation[t].ids \cup DOMAIN rotation[t].rows

LEMMA RotationReads ==
  ASSUME RotationAssumption, ProcedureAssumption, PInv, NEW t \in Rotators, ByRotation(t)
  PROVE  Procedure'
<1>1. Others(t) /\ process' = process /\ RingsSame
  BY RequestSteps, WorkingKeeps DEF PInv, ByRotation, Ends, Commits, Onward, RingsSame
<1>2. PendingIsCurrent'
  BY <1>1 DEF PInv, Procedure, PendingIsCurrent
<1>3. TableIsRead
  <2>1. CASE Commits(t)
    <3>1. HoldsAll(rotation[t].target) /\ rotation[t].target = LastKey
      BY <2>1, TargetIsLast DEF PInv, Procedure, TargetsAreHeld, Commits
    <3>2. \A e : /\ Rewrapped(e, rotation[t].target).key = rotation[t].target
                 /\ Rewrapped(e, rotation[t].target).under = rotation[t].target
      BY DEF Rewrapped, Envelope
    <3>3. \A r \in Records :
            table'[r] = table[r] \/ table'[r] = Rewrapped(table[r], rotation[t].target)
      BY <2>1, CommitsWhat DEF PInv
    <3> QED
      BY <3>1, <3>2, <3>3 DEF TableIsRead, ReadByAll
  <2>2. CASE ~Commits(t)
    BY <2>2, RequestSteps, WorkingKeeps DEF PInv, ByRotation, Ends, TableIsRead
  <2> QED
    BY <2>1, <2>2
<1>4. /\ WritersAreRead' /\ RecordsAreRead'
      /\ retirable' = retirable => RetirableIsClean'
      /\ \A r \in Records : AllWriteUnder(LastKey) /\ UnderLast(r) => UnderLast(r)'
      /\ AllWriteUnder(LastKey)' = AllWriteUnder(LastKey)
  BY <1>1, <1>3, TableChanges
<1>5. TargetsAreHeld'
  <2>1. ASSUME NEW i \in Ids, NEW s \in Sources, NEW k \in Targets, Request(t, i, s, k)
        PROVE  HoldsAll(rotation'[t].target)
    <3>1. HoldsAll(k)
      BY <2>1 DEF Request, ProcedureAssumption, HoldsAll
    <3> QED
      BY <2>1, <3>1, RequestSteps DEF PInv
  <2>2. ASSUME Working(t) \/ Commits(t) PROVE HoldsAll(rotation'[t].target)
    <3>1. rotation'[t].target = rotation[t].target /\ rotation[t].pc # "idle"
      BY <2>2, WorkingKeeps, JobFields DEF Commits, Onward
    <3> QED
      BY <3>1 DEF PInv, Procedure, TargetsAreHeld
  <2>3. Ends(t) => rotation'[t].pc = "idle"
    BY DEF Ends, SettledRecords
  <2>4. rotation'[t].pc # "idle" => HoldsAll(rotation'[t].target)
    BY <2>1, <2>2, <2>3 DEF ByRotation
  <2>5. \A u \in Rotators : rotation'[u].pc # "idle" => HoldsAll(rotation'[u].target)
    BY <1>1, <2>4 DEF Others, PInv, Procedure, TargetsAreHeld
  <2> QED
    BY <1>1, <2>5 DEF TargetsAreHeld, HoldsAll
<1>6. \A u \in Rotators : CleanSees(u)
  BY DEF PInv, Procedure, CleanSeesAll, CleanSees
<1>7. CleanSeesAll'
  <2>1. ASSUME NEW u \in Rotators, u # t PROVE CleanSees(u)'
    <3>1. rotation'[u] = rotation[u]
      BY <1>1, <2>1 DEF Others
    <3> QED
      BY <1>4, <1>6, <3>1 DEF CleanSees, AtWork
  <2>2. CASE \/ \E i \in Ids, s \in Sources, k \in Targets : Request(t, i, s, k)
             \/ Ends(t) \/ Begins(t) \/ Commits(t)
    <3>1. rotation'[t].pc \notin {"locking", "rewrapping"}
      BY <2>2, RequestSteps DEF PInv, Ends, SettledRecords, Begins, Commits, Onward
    <3> QED
      BY <2>1, <3>1 DEF CleanSeesAll, CleanSees, AtWork
  <2>3. CASE Selects(t)
    <3>1. \A r \in Records : UnderLast(r)' \/ r \in rotation'[t].ids
      BY <2>3 DEF Selects, UnderLast
    <3>2. rotation'[t].clean => AllWriteUnder(LastKey)
      BY <2>3 DEF Selects
    <3> QED
      BY <1>4, <2>1, <3>1, <3>2 DEF CleanSeesAll, CleanSees
  <2>4. CASE Turns(t) \/ \E r \in Records : Locks(t, r) \/ Rewraps(t, r)
    <3>1. rotation[t].pc \in {"locking", "rewrapping"} /\ rotation'[t].clean = rotation[t].clean
      BY <2>4 DEF Turns, Locks, Rewraps, SameClean
    <3>2. \A r \in Records : r \in rotation[t].ids \cup DOMAIN rotation[t].rows =>
            UnderLast(r) \/ r \in rotation'[t].ids \cup DOMAIN rotation'[t].rows
      BY <2>4 DEF Turns, Locks, Rewraps, SameRows, UnderLast
    <3> QED
      BY <1>4, <1>6, <2>1, <3>1, <3>2 DEF CleanSeesAll, CleanSees, AtWork
  <2> QED
    BY <2>2, <2>3, <2>4 DEF ByRotation, Working
<1>8. RetirableIsClean'
  <2>1. CASE Commits(t) /\ ~retirable /\ rotation[t].clean
    <3>1. /\ rotation[t].pc = "rewrapping" /\ rotation[t].ids = {}
          /\ rotation[t].target = LastKey
      BY <2>1, TargetIsLast DEF Commits, PInv, IInv, Stages, Stage
    <3>2. /\ AllWriteUnder(LastKey)
          /\ \A r \in Records : UnderLast(r) \/ r \in DOMAIN rotation[t].rows
      BY <1>6, <2>1, <3>1 DEF CleanSees, AtWork
    <3>3. \A r \in DOMAIN rotation[t].rows : rotation[t].rows[r] = table[r]
      BY <3>1 DEF PInv, IInv, RowsAreHeld, AtWork
    <3>4. \A r \in Records :
            ~UnderLast(r) => r \in DOMAIN rotation[t].moved
      BY <2>1, <3>1, <3>2, <3>3, CommitsWhat DEF PInv, Candidates, UnderLast
    <3>5. \A r \in DOMAIN rotation[t].moved : r \in Records => table'[r].key = LastKey
      <4>1. \A e : Rewrapped(e, rotation[t].target).key = rotation[t].target
        BY DEF Rewrapped, Envelope
      <4> QED
        BY <2>1, <3>1, <4>1, CommitsWhat DEF PInv
    <3>6. \A r \in Records : UnderLast(r)'
      BY <1>4, <3>2, <3>4, <3>5 DEF UnderLast
    <3> QED
      BY <1>4, <3>2, <3>6 DEF RetirableIsClean
  <2>2. CASE ~(Commits(t) /\ ~retirable /\ rotation[t].clean)
    <3>1. retirable' = retirable
      <4>1. retirable \in BOOLEAN /\ (Commits(t) => rotation[t].clean \in BOOLEAN)
        BY DEF PInv, IInv, Types, Commits, Onward, Jobs
      <4>2. CASE Commits(t)
        BY <2>2, <4>1, <4>2 DEF Commits
      <4>3. CASE ~Commits(t)
        BY <4>3, RequestSteps, WorkingKeeps DEF PInv, ByRotation, Ends
      <4> QED
        BY <4>2, <4>3
    <3> QED
      BY <1>4, <3>1
  <2> QED
    BY <2>1, <2>2
<1> QED
  BY <1>2, <1>4, <1>5, <1>7, <1>8 DEF Procedure

\* While rings are handed out in order every process can read every record at
\* every moment: while a rotation rewraps, while some processes have been
\* restarted and others have not, and when the old key is gone.
THEOREM EveryoneReads ==
  ASSUME RotationAssumption, ProcedureAssumption PROVE Spec => []EveryoneCanRead
<1>1. PInv /\ [Next]_vars => Procedure'
  <2> SUFFICES ASSUME PInv, [Next]_vars PROVE Procedure'
    OBVIOUS
  <2>1. CASE Next
    BY <2>1, NextSteps, StepsAre, WriterReads, RotationReads DEF PInv
  <2>2. CASE UNCHANGED vars
    BY <2>2 DEF vars, ghosts, PInv, Procedure, WritersAreRead, RecordsAreRead, PendingIsCurrent,
       TargetsAreHeld, CleanSeesAll, RetirableIsClean, HoldsAll, UnderLast, AllWriteUnder, AtWork
  <2> QED
    BY <2>1, <2>2
<1>2. PInv => EveryoneCanRead
  BY DEF PInv, Procedure, RecordsAreRead, HoldsAll, EveryoneCanRead, Decrypts
<1>3. RotationAssumption /\ Init => Procedure
  BY InitProcedure
<1> QED
  BY <1>1, <1>2, <1>3, Invariant, PTL DEF Spec, PInv

(***************************************************************************)
(* The chain of backups.                                                   *)
(***************************************************************************)

(* An instance counts as this module does.                                 *)
LEMMA BackupCounts ==
  \A S : B!Cardinality(S) = Cardinality(S) /\ (B!IsFiniteSet(S) <=> IsFiniteSet(S))
  BY DEF B!Cardinality, Cardinality, B!IsFiniteSet, IsFiniteSet

-----------------------------------------------------------------------------
(* The inductive invariant.                                                *)

BackupSteps == {"persisting", "locking", "reading", "checking", "renaming", "unlocking"}
Named == [digest : Nat, generation : Nat, parent : Nat]
CallRecords ==
  [pc : BackupSteps, kind : {"register", "retire"}, manifest : Named, doc : Seq(B!Entries),
   outcome : {"failed", "done"}]

BackupTypes ==
  /\ inventory \in Seq(B!Entries) /\ signed \in Seq(B!Manifests) /\ Len(signed) <= MaxBackups
  /\ caller \in [Keepers -> CallRecords \cup {B!Idle}]
  /\ lockFile \in Keepers \cup {B!Free, B!Stale}
  /\ retirements \in Nat

(* A manifest is the digest it was signed as.                              *)
IsSigned(a) == a.digest \in 1..Len(signed) /\ a = signed[a.digest]
IsRegistered(a) ==
  a.generation \in 1..Len(inventory) /\ inventory[a.generation].digest = a.digest
IsUnregistered(a) == \A k \in 1..Len(inventory) : inventory[k].digest # a.digest

(* Every manifest continues a generation of the inventory, or is its first;*)
(* a generation needs a backup of its own, so it is not beyond the digest. *)
SignedContinue ==
  \A d \in 1..Len(signed) :
    /\ signed[d].digest = d
    /\ signed[d].generation \in 1..(Len(inventory) + 1) /\ signed[d].generation <= d
    /\ signed[d].parent = (IF signed[d].generation = 1 THEN 0
                           ELSE inventory[signed[d].generation - 1].digest)

(* An entry names a signed manifest of its place; it is stored for as long *)
(* as the entry is retained, and the last entry is.                        *)
EntriesAreSigned ==
  \A k \in 1..Len(inventory) :
    /\ inventory[k].digest \in 1..Len(signed)
    /\ signed[inventory[k].digest].generation = k
    /\ inventory[k].status = "retained" => signed[inventory[k].digest] \in artifacts
LastIsRetained == inventory # <<>> => inventory[Len(inventory)].status = "retained"
ArtifactsAreSigned == \A a \in artifacts : IsSigned(a)

Chain == SignedContinue /\ EntriesAreSigned /\ LastIsRetained /\ ArtifactsAreSigned

(* What a call has done so far, and what it may do to what it has read.    *)
Allowed(c) ==
  IF c.kind = "register"
  THEN c.manifest.generation = Len(c.doc) + 1
  ELSE /\ c.manifest.generation \in 1..Len(c.doc) /\ c.manifest.generation # Len(c.doc)
       /\ c.doc[c.manifest.generation] = [digest |-> c.manifest.digest, status |-> "retained"]

NextDoc(c) ==
  IF c.kind = "register"
  THEN Append(c.doc, [digest |-> c.manifest.digest, status |-> "retained"])
  ELSE [c.doc EXCEPT ![c.manifest.generation].status = "deleted"]

Holds(c) ==
  /\ c.outcome = "done" => c.pc = "unlocking"
  /\ c.pc = "persisting" => c.kind = "register"
  /\ c.kind = "register" =>
       /\ IsSigned(c.manifest)
       /\ c.outcome = "done" => IsRegistered(c.manifest)
       /\ c.outcome = "failed" => IsUnregistered(c.manifest)
       /\ c.pc \notin {"persisting", "unlocking"} => c.manifest \in artifacts
  /\ c.pc \in {"checking", "renaming"} => c.doc = inventory
  /\ c.pc = "renaming" => Allowed(c) /\ next = [doc |-> NextDoc(c)]

CallsHold == \A p \in Keepers : caller[p] # B!Idle => Holds(caller[p])

(* No two calls register the same manifest, nor one that was answered.     *)
Registering(p) == caller[p] # B!Idle /\ caller[p].kind = "register"
ManifestsAreOwn ==
  /\ \A p, q \in Keepers : p # q /\ Registering(p) /\ Registering(q) =>
       caller[p].manifest.digest # caller[q].manifest.digest
  /\ \A p \in Keepers, a \in created \cup failed : Registering(p) =>
       caller[p].manifest.digest # a.digest

Answered ==
  /\ \A a \in created \cup failed : IsSigned(a)
  /\ \A a \in created : IsRegistered(a)
  /\ \A a \in failed : IsUnregistered(a)

LockIsHeld == \A p \in Keepers : B!Updating(p) <=> lockFile = p

BackupIInv == BackupTypes /\ Chain /\ CallsHold /\ ManifestsAreOwn /\ Answered /\ LockIsHeld

LEMMA BackupInitInvariant == B!BackupAssumption /\ B!Init => BackupIInv
<1> SUFFICES ASSUME B!BackupAssumption, B!Init PROVE BackupIInv
  OBVIOUS
<1>1. /\ inventory = <<>> /\ signed = <<>> /\ Len(inventory) = 0 /\ Len(signed) = 0
      /\ caller = [p \in Keepers |-> B!Idle] /\ artifacts = {} /\ created = {} /\ failed = {}
      /\ lockFile = B!Free /\ next = B!None /\ retirements = 0
  BY DEF B!Init
<1>2. BackupTypes
  BY <1>1 DEF BackupTypes, B!BackupAssumption
<1>3. Chain
  BY <1>1 DEF Chain, SignedContinue, EntriesAreSigned, LastIsRetained, ArtifactsAreSigned
<1>4. CallsHold /\ ManifestsAreOwn /\ Answered
  BY <1>1 DEF CallsHold, ManifestsAreOwn, Answered, Registering
<1>5. LockIsHeld
  BY <1>1 DEF LockIsHeld, B!Updating, B!Idle, B!BackupAssumption, B!Free
<1> QED
  BY <1>2, <1>3, <1>4, <1>5 DEF BackupIInv

-----------------------------------------------------------------------------
(* Steps that leave the inventory and the manifests alone.                 *)

LEMMA ChainKept ==
  ASSUME BackupIInv, UNCHANGED <<inventory, signed, artifacts>>
  PROVE  Chain'
BY DEF BackupIInv, Chain, SignedContinue, EntriesAreSigned, LastIsRetained, ArtifactsAreSigned, IsSigned

(* One call takes a step; the others hold as they did.                     *)
LEMMA OneCallMoves ==
  ASSUME BackupIInv, NEW p \in Keepers, NEW c, caller' = [caller EXCEPT ![p] = c],
         UNCHANGED <<inventory, signed>>, artifacts \subseteq artifacts',
         next' = next \/ lockFile = p,
         c # B!Idle => Holds(c)'
  PROVE  CallsHold'
<1> SUFFICES ASSUME NEW q \in Keepers, caller'[q] # B!Idle PROVE Holds(caller[q])'
  BY DEF CallsHold
<1>1. caller'[p] = c
  BY DEF BackupIInv, BackupTypes
<1>2. CASE q = p
  BY <1>1, <1>2 DEF Holds, IsSigned, IsRegistered, IsUnregistered, Allowed, NextDoc
<1>3. CASE q # p
  <2>1. caller'[q] = caller[q] /\ caller[q] # B!Idle /\ Holds(caller[q])
    BY <1>3 DEF BackupIInv, BackupTypes, CallsHold
  <2>2. B!Updating(q) => next' = next
    BY <1>3 DEF BackupIInv, LockIsHeld
  <2> QED
    BY <2>1, <2>2 DEF Holds, IsSigned, IsRegistered, IsUnregistered, Allowed, NextDoc, B!Updating
<1> QED
  BY <1>2, <1>3

(* A call that goes on, with the manifest it had.                          *)
LEMMA CallGoesOn ==
  ASSUME BackupIInv, NEW p \in Keepers, caller[p] # B!Idle, NEW c \in CallRecords,
         caller' = [caller EXCEPT ![p] = c],
         c.kind = caller[p].kind, c.manifest = caller[p].manifest,
         UNCHANGED <<inventory, signed, retirements, created, failed>>,
         lockFile' \in Keepers \cup {B!Free, B!Stale}
  PROVE  BackupTypes' /\ ManifestsAreOwn' /\ Answered'
<1>1. BackupTypes'
  BY DEF BackupIInv, BackupTypes
<1>2. /\ caller'[p] = c
      /\ \A q \in Keepers : q # p => caller'[q] = caller[q]
  BY DEF BackupIInv, BackupTypes
<1>3. c # B!Idle
  BY DEF CallRecords, B!Idle
<1>4. ManifestsAreOwn'
  BY <1>2, <1>3 DEF BackupIInv, ManifestsAreOwn, Registering
<1>5. Answered'
  BY DEF BackupIInv, Answered, IsSigned, IsRegistered, IsUnregistered
<1> QED
  BY <1>1, <1>4, <1>5

(* A call that ends tells its caller what has become of it.                *)
LEMMA CallEnds ==
  ASSUME BackupIInv, NEW p \in Keepers, caller[p] # B!Idle,
         NEW o \in {caller[p].outcome, "unclear"}, B!Ends(p, o),
         UNCHANGED <<inventory, signed, retirements>>,
         lockFile' \in Keepers \cup {B!Free, B!Stale}
  PROVE  BackupTypes' /\ ManifestsAreOwn' /\ Answered' /\ caller' = [caller EXCEPT ![p] = B!Idle]
<1> PICK a : a = caller[p].manifest
  OBVIOUS
<1>1. /\ caller' = [caller EXCEPT ![p] = B!Idle]
      /\ created' = IF Registering(p) /\ o = "done" THEN created \cup {a} ELSE created
      /\ failed' = IF Registering(p) /\ o = "failed" THEN failed \cup {a} ELSE failed
  BY DEF B!Ends, Registering
<1>2. BackupTypes'
  BY <1>1 DEF BackupIInv, BackupTypes
<1>3. /\ caller'[p] = B!Idle
      /\ \A q \in Keepers : q # p => caller'[q] = caller[q]
  BY <1>1 DEF BackupIInv, BackupTypes
<1>4. ManifestsAreOwn'
  BY <1>1, <1>3 DEF BackupIInv, ManifestsAreOwn, Registering
<1>5. Registering(p) => /\ IsSigned(a)
                        /\ o = "done" => IsRegistered(a)
                        /\ o = "failed" => IsUnregistered(a)
  BY DEF BackupIInv, CallsHold, Holds, Registering
<1>6. Answered'
  BY <1>1, <1>5 DEF BackupIInv, Answered, IsSigned, IsRegistered, IsUnregistered
<1> QED
  BY <1>1, <1>2, <1>4, <1>6

-----------------------------------------------------------------------------
(* A backup begins.                                                        *)

LEMMA CallTyped ==
  ASSUME NEW pc \in BackupSteps, NEW kind \in {"register", "retire"}, NEW m \in Named
  PROVE  B!Call(pc, kind, m) \in CallRecords
<1>1. PICK none : none = <<>>
  OBVIOUS
<1>2. none \in Seq(B!Entries)
  BY <1>1
<1>3. [pc |-> pc, kind |-> kind, manifest |-> m, doc |-> none, outcome |-> "failed"] \in CallRecords
  BY <1>2 DEF CallRecords
<1> QED
  BY <1>1, <1>3 DEF B!Call

LEMMA InventoryFits ==
  ASSUME BackupIInv PROVE Len(inventory) \in Nat /\ Len(signed) \in Nat /\ Len(inventory) <= Len(signed)
<1>1. Len(inventory) \in Nat /\ Len(signed) \in Nat
  BY DEF BackupIInv, BackupTypes
<1>2. CASE Len(inventory) = 0
  BY <1>1, <1>2
<1>3. CASE Len(inventory) # 0
  <2> PICK d : d = inventory[Len(inventory)].digest
    OBVIOUS
  <2>1. d \in 1..Len(signed) /\ signed[d].generation = Len(inventory)
    BY <1>1, <1>3 DEF BackupIInv, Chain, EntriesAreSigned
  <2>2. signed[d].generation <= d
    BY <2>1 DEF BackupIInv, Chain, SignedContinue
  <2> QED
    BY <1>1, <2>1, <2>2
<1> QED
  BY <1>2, <1>3

LEMMA SignedGrows ==
  ASSUME BackupIInv, NEW m \in B!Manifests, signed' = Append(signed, m)
  PROVE  /\ signed' \in Seq(B!Manifests) /\ Len(signed) \in Nat /\ Len(signed') = Len(signed) + 1
         /\ \A d \in 1..Len(signed) : signed'[d] = signed[d]
         /\ signed'[Len(signed) + 1] = m
         /\ \A d \in 1..Len(signed') : d \in 1..Len(signed) \/ d = Len(signed) + 1
BY DEF BackupIInv, BackupTypes

LEMMA StartBackupKeeps ==
  ASSUME B!BackupAssumption, BackupIInv, NEW p \in Keepers, B!StartBackup(p)
  PROVE  BackupIInv'
<1> PICK m, c : /\ m = B!Manifest(Len(signed) + 1, inventory)
                /\ c = B!Call("persisting", "register", m)
  OBVIOUS
<1>1. /\ caller[p] = B!Idle /\ Len(signed) < MaxBackups /\ signed' = Append(signed, m)
      /\ caller' = [caller EXCEPT ![p] = c]
      /\ UNCHANGED <<B!files, retirements, B!ghosts>>
  BY DEF B!StartBackup
<1>2. UNCHANGED <<inventory, next, lockFile, artifacts, retirements, created, failed>>
  BY <1>1 DEF B!files, B!ghosts
<1>3. /\ Len(inventory) \in Nat /\ Len(signed) \in Nat /\ Len(inventory) <= Len(signed)
      /\ MaxBackups \in Nat
  BY InventoryFits DEF B!BackupAssumption
<1>4. B!DigestOf(inventory) = IF Len(inventory) = 0 THEN 0 ELSE inventory[Len(inventory)].digest
  BY DEF B!DigestOf, BackupIInv, BackupTypes
<1>5. B!DigestOf(inventory) \in 0..Len(signed)
  BY <1>3, <1>4 DEF BackupIInv, Chain, EntriesAreSigned
<1>6. /\ m.digest = Len(signed) + 1 /\ m.generation = Len(inventory) + 1
      /\ m.parent = B!DigestOf(inventory)
      /\ m = [digest |-> Len(signed) + 1, generation |-> Len(inventory) + 1,
              parent |-> B!DigestOf(inventory)]
  BY DEF B!Manifest
<1>7. m \in B!Manifests /\ m \in Named
  BY <1>1, <1>3, <1>5, <1>6 DEF B!Manifests, Named
<1>8. /\ signed' \in Seq(B!Manifests) /\ Len(signed') = Len(signed) + 1
      /\ \A d \in 1..Len(signed) : signed'[d] = signed[d]
      /\ signed'[Len(signed) + 1] = m
      /\ \A d \in 1..Len(signed') : d \in 1..Len(signed) \/ d = Len(signed) + 1
  BY <1>1, <1>7, SignedGrows
<1>9. /\ c.pc = "persisting" /\ c.kind = "register" /\ c.manifest = m /\ c.outcome = "failed"
      /\ c \in CallRecords /\ c # B!Idle
  <2>1. c = B!Call("persisting", "register", m) /\ "persisting" \in BackupSteps
    BY DEF BackupSteps
  <2>2. c \in CallRecords
    BY <1>7, <2>1, CallTyped
  <2>3. c.pc = "persisting" /\ c.kind = "register" /\ c.manifest = m /\ c.outcome = "failed"
    BY <2>1 DEF B!Call
  <2> QED
    BY <2>2, <2>3 DEF B!Idle
<1>10. BackupTypes'
  BY <1>1, <1>2, <1>3, <1>8, <1>9 DEF BackupIInv, BackupTypes
<1>11. \A a : IsSigned(a) => IsSigned(a)' /\ a.digest \in 1..Len(signed)
  BY <1>3, <1>8 DEF IsSigned
<1>12. Chain'
  <2>1. SignedContinue'
    <3> SUFFICES ASSUME NEW d \in 1..Len(signed')
                 PROVE  /\ signed'[d].digest = d
                        /\ signed'[d].generation \in 1..(Len(inventory) + 1)
                        /\ signed'[d].generation <= d
                        /\ signed'[d].parent = (IF signed'[d].generation = 1 THEN 0
                              ELSE inventory[signed'[d].generation - 1].digest)
      BY <1>2 DEF SignedContinue
    <3>1. CASE d \in 1..Len(signed)
      BY <1>8, <3>1 DEF BackupIInv, Chain, SignedContinue
    <3>2. CASE d = Len(signed) + 1
      <4>1. (Len(inventory) + 1) - 1 = Len(inventory) /\ (Len(inventory) + 1 = 1 <=> Len(inventory) = 0)
        BY <1>3
      <4> QED
        BY <1>3, <1>4, <1>6, <1>8, <3>2, <4>1
    <3> QED
      BY <1>8, <3>1, <3>2
  <2>2. EntriesAreSigned'
    BY <1>2, <1>3, <1>8 DEF BackupIInv, Chain, EntriesAreSigned
  <2>3. LastIsRetained' /\ ArtifactsAreSigned'
    BY <1>2, <1>11 DEF BackupIInv, Chain, LastIsRetained, ArtifactsAreSigned
  <2> QED
    BY <2>1, <2>2, <2>3 DEF Chain
<1>13. /\ caller'[p] = c
       /\ \A q \in Keepers : q # p => caller'[q] = caller[q]
  BY <1>1 DEF BackupIInv, BackupTypes
<1>14. CallsHold'
  <2> SUFFICES ASSUME NEW q \in Keepers, caller'[q] # B!Idle PROVE Holds(caller[q])'
    BY DEF CallsHold
  <2>1. CASE q # p
    <3>1. Holds(caller[q]) /\ caller'[q] = caller[q]
      BY <1>13, <2>1 DEF BackupIInv, CallsHold
    <3> QED
      BY <1>2, <1>11, <3>1 DEF Holds, IsRegistered, IsUnregistered, Allowed, NextDoc
  <2>2. CASE q = p
    <3>1. IsSigned(m)'
      BY <1>3, <1>6, <1>8 DEF IsSigned
    <3>2. IsUnregistered(m)'
      BY <1>2, <1>3, <1>6 DEF IsUnregistered, BackupIInv, Chain, EntriesAreSigned
    <3> QED
      BY <1>9, <1>13, <2>2, <3>1, <3>2 DEF Holds
  <2> QED
    BY <2>1, <2>2
<1>15. ManifestsAreOwn'
  <2>1. \A q \in Keepers : Registering(q) => caller[q].manifest.digest \in 1..Len(signed)
    BY DEF BackupIInv, CallsHold, Holds, IsSigned, Registering
  <2>2. \A a \in created \cup failed : a.digest \in 1..Len(signed)
    BY DEF BackupIInv, Answered, IsSigned
  <2>3. m.digest \notin 1..Len(signed)
    BY <1>3, <1>6
  <2>4. /\ Registering(p)' /\ caller'[p].manifest = m
        /\ \A q \in Keepers : q # p =>
             (Registering(q)' <=> Registering(q)) /\ caller'[q] = caller[q]
    BY <1>9, <1>13 DEF Registering
  <2> QED
    BY <1>2, <2>1, <2>2, <2>3, <2>4 DEF BackupIInv, ManifestsAreOwn
<1>16. Answered'
  BY <1>2, <1>11 DEF BackupIInv, Answered, IsRegistered, IsUnregistered
<1>17. LockIsHeld'
  BY <1>1, <1>2, <1>9, <1>13 DEF BackupIInv, LockIsHeld, B!Updating, B!Idle
<1> QED
  BY <1>10, <1>12, <1>14, <1>15, <1>16, <1>17 DEF BackupIInv


-----------------------------------------------------------------------------
(* The other steps that leave the inventory alone.                         *)

LEMMA PersistKeeps ==
  ASSUME B!BackupAssumption, BackupIInv, NEW p \in Keepers, B!Persist(p)
  PROVE  BackupIInv'
<1> PICK m, c : m = caller[p].manifest /\ c = [caller[p] EXCEPT !.pc = "locking"]
  OBVIOUS
<1>1. /\ caller[p].pc = "persisting" /\ artifacts' = artifacts \cup {m}
      /\ caller' = [caller EXCEPT ![p] = c]
      /\ UNCHANGED <<inventory, next, lockFile, signed, retirements, created, failed>>
  BY DEF B!Persist, B!counts, B!ghosts
<1>2. caller[p] \in CallRecords /\ caller[p] # B!Idle /\ Holds(caller[p])
  BY <1>1 DEF BackupIInv, BackupTypes, CallsHold, B!Idle
<1>3. /\ c \in CallRecords /\ c.kind = caller[p].kind /\ c.manifest = m
      /\ c.outcome = caller[p].outcome /\ c.pc = "locking"
  BY <1>2 DEF CallRecords, BackupSteps
<1>4. /\ caller[p].kind = "register" /\ caller[p].outcome # "done"
      /\ IsSigned(m) /\ (c.outcome = "failed" => IsUnregistered(m))
  BY <1>1, <1>2, <1>3 DEF Holds
<1>5. Chain'
  BY <1>1, <1>4 DEF BackupIInv, Chain, SignedContinue, EntriesAreSigned, LastIsRetained,
                    ArtifactsAreSigned, IsSigned
<1>6. Holds(c)'
  BY <1>1, <1>3, <1>4 DEF Holds, IsSigned, IsUnregistered
<1>7. CallsHold'
  BY <1>1, <1>6, OneCallMoves
<1>8. BackupTypes' /\ ManifestsAreOwn' /\ Answered'
  BY <1>1, <1>2, <1>3, CallGoesOn DEF BackupIInv, BackupTypes
<1>9. LockIsHeld'
  BY <1>1, <1>3 DEF BackupIInv, BackupTypes, LockIsHeld, B!Updating
<1> QED
  BY <1>5, <1>7, <1>8, <1>9 DEF BackupIInv

(* A call that ends outside the lock.                                      *)
LEMMA EndKeeps ==
  ASSUME B!BackupAssumption, BackupIInv, NEW p \in Keepers,
         caller[p].pc \in {"persisting", "locking"}, B!Ends(p, "failed"),
         UNCHANGED <<B!files, B!counts>>
  PROVE  BackupIInv'
<1>1. caller[p] \in CallRecords /\ caller[p] # B!Idle
  BY DEF BackupIInv, BackupTypes, B!Idle
<1>2. Holds(caller[p])
  BY <1>1 DEF BackupIInv, CallsHold
<1>3. caller[p].outcome = "failed"
  BY <1>1, <1>2 DEF Holds, CallRecords
<1>4. UNCHANGED <<inventory, next, lockFile, artifacts, signed, retirements>>
  BY DEF B!files, B!counts
<1>5. /\ BackupTypes' /\ ManifestsAreOwn' /\ Answered'
      /\ caller' = [caller EXCEPT ![p] = B!Idle]
  BY <1>1, <1>3, <1>4, CallEnds DEF BackupIInv, BackupTypes
<1>6. CallsHold'
  BY <1>4, <1>5, OneCallMoves
<1>7. LockIsHeld'
  BY <1>4, <1>5 DEF BackupIInv, BackupTypes, LockIsHeld, B!Updating, B!Idle
<1> QED
  BY <1>4, <1>5, <1>6, <1>7, ChainKept DEF BackupIInv

LEMMA PersistFailsKeeps ==
  ASSUME B!BackupAssumption, BackupIInv, NEW p \in Keepers, B!PersistFails(p)
  PROVE  BackupIInv'
BY EndKeeps DEF B!PersistFails

LEMMA StartRetirementKeeps ==
  ASSUME B!BackupAssumption, BackupIInv, NEW p \in Keepers, NEW g \in DOMAIN inventory,
         B!StartRetirement(p, g)
  PROVE  BackupIInv'
<1> PICK m, c :
      /\ m = [digest |-> inventory[g].digest, generation |-> g, parent |-> 0]
      /\ c = B!Call("locking", "retire", m)
  OBVIOUS
<1>1. /\ caller[p] = B!Idle /\ retirements' = retirements + 1
      /\ caller' = [caller EXCEPT ![p] = c]
      /\ UNCHANGED <<inventory, next, lockFile, artifacts, signed, created, failed>>
  BY DEF B!StartRetirement, B!files, B!ghosts
<1>2. g \in 1..Len(inventory) /\ g \in Nat
  BY DEF BackupIInv, BackupTypes
<1>3. inventory[g].digest \in 1..Len(signed)
  BY <1>2 DEF BackupIInv, Chain, EntriesAreSigned
<1>4. Len(signed) \in Nat /\ inventory[g].digest \in Nat
  BY <1>3 DEF BackupIInv, BackupTypes
<1>5. m \in Named
  BY <1>2, <1>4 DEF Named
<1>6. c \in CallRecords
  BY <1>5, CallTyped DEF BackupSteps
<1>7. c.pc = "locking" /\ c.kind = "retire" /\ c.outcome = "failed" /\ c # B!Idle
  BY DEF B!Idle, B!Call
<1>8. /\ caller'[p] = c
      /\ \A q \in Keepers : q # p => caller'[q] = caller[q]
  BY <1>1 DEF BackupIInv, BackupTypes
<1>9. BackupTypes'
  BY <1>1, <1>6 DEF BackupIInv, BackupTypes
<1>10. CallsHold'
  BY <1>1, <1>7, OneCallMoves DEF Holds
<1>11. ManifestsAreOwn'
  BY <1>1, <1>7, <1>8 DEF BackupIInv, ManifestsAreOwn, Registering
<1>12. Answered'
  BY <1>1 DEF BackupIInv, Answered, IsSigned, IsRegistered, IsUnregistered
<1>13. LockIsHeld'
  BY <1>1, <1>7, <1>8 DEF BackupIInv, LockIsHeld, B!Updating, B!Idle
<1> QED
  BY <1>1, <1>9, <1>10, <1>11, <1>12, <1>13, ChainKept DEF BackupIInv

(* A live call that moves to another step with what it has, when it holds  *)
(* the lock file or has just made it.                                      *)
Proceeds(p, c) ==
  /\ caller' = [caller EXCEPT ![p] = c]
  /\ c.kind = caller[p].kind /\ c.manifest = caller[p].manifest
  /\ c.outcome = caller[p].outcome
  /\ c.outcome = "done" => c.pc = "unlocking"
  /\ caller[p].pc = "unlocking" => c.pc = "unlocking"
  /\ c.pc \in {"checking", "renaming"} => c.doc = inventory
  /\ c.pc = "renaming" => Allowed(c) /\ next' = [doc |-> NextDoc(c)]
  /\ lockFile' = p
  /\ \/ lockFile = p
     \/ lockFile = B!Free /\ caller[p].pc = "locking" /\ next' = next
  /\ UNCHANGED <<inventory, artifacts, signed, retirements, created, failed>>

LEMMA StepKeeps ==
  ASSUME B!BackupAssumption, BackupIInv, NEW p \in Keepers, NEW c \in CallRecords,
         caller[p] \in CallRecords, caller[p].pc # "persisting",
         c.pc \notin {"persisting", "locking"}, Proceeds(p, c)
  PROVE  BackupIInv'
<1> USE DEF Proceeds
<1>1. caller[p] # B!Idle /\ c # B!Idle
  BY DEF CallRecords, B!Idle, BackupSteps
<1>2. Holds(caller[p])
  BY <1>1 DEF BackupIInv, CallsHold
<1>3. Holds(c)'
  BY <1>2 DEF Holds, IsSigned, IsRegistered, IsUnregistered, Allowed, NextDoc, CallRecords, BackupSteps
<1>4. CallsHold'
  BY <1>3, OneCallMoves
<1>5. BackupTypes' /\ ManifestsAreOwn' /\ Answered'
  BY <1>1, CallGoesOn
<1>6. LockIsHeld'
  <2>1. caller'[p] = c /\ \A q \in Keepers : q # p => caller'[q] = caller[q]
    BY DEF BackupIInv, BackupTypes
  <2>2. c.pc \in {"reading", "checking", "renaming", "unlocking"}
    BY DEF CallRecords, BackupSteps
  <2>3. \A q \in Keepers : q # B!Free
    BY DEF B!BackupAssumption, B!Free
  <2> QED
    BY <2>1, <2>2, <2>3 DEF BackupIInv, LockIsHeld, B!Updating
<1> QED
  BY <1>4, <1>5, <1>6, ChainKept DEF BackupIInv

LEMMA TakeLockKeeps ==
  ASSUME B!BackupAssumption, BackupIInv, NEW p \in Keepers, B!TakeLock(p)
  PROVE  BackupIInv'
<1>1. caller[p].pc = "locking"
  BY DEF B!TakeLock
<1>2. CASE lockFile = B!Free
  <2> PICK c : c = [caller[p] EXCEPT !.pc = "reading"]
    OBVIOUS
  <2>1. /\ lockFile' = p /\ caller' = [caller EXCEPT ![p] = c]
        /\ UNCHANGED <<inventory, next, artifacts, signed, retirements, created, failed>>
    BY <1>2 DEF B!TakeLock, B!counts, B!ghosts
  <2>2. caller[p] \in CallRecords
    BY <1>1 DEF BackupIInv, BackupTypes, B!Idle
  <2>3. /\ c \in CallRecords /\ c.pc = "reading" /\ c.kind = caller[p].kind
        /\ c.manifest = caller[p].manifest /\ c.outcome = caller[p].outcome
    BY <2>2 DEF CallRecords, BackupSteps
  <2>4. c.outcome # "done"
    BY <1>1, <2>2, <2>3 DEF BackupIInv, CallsHold, Holds, B!Idle
  <2> QED
    BY <1>1, <1>2, <2>1, <2>2, <2>3, <2>4, StepKeeps DEF Proceeds, BackupIInv, LockIsHeld
<1>3. CASE lockFile # B!Free
  <2>1. B!Ends(p, "failed") /\ UNCHANGED <<B!files, B!counts>>
    BY <1>3 DEF B!TakeLock
  <2> QED
    BY <1>1, <2>1, EndKeeps
<1> QED
  BY <1>2, <1>3

(* A call whose lock the others respect.                                   *)
LEMMA Holder ==
  ASSUME B!BackupAssumption, BackupIInv, NEW p \in Keepers, B!Updating(p)
  PROVE  /\ caller[p] \in CallRecords /\ caller[p] # B!Idle /\ Holds(caller[p])
         /\ lockFile = p
         /\ caller[p].pc # "unlocking" => caller[p].outcome = "failed"
<1>1. caller[p] \in CallRecords /\ caller[p] # B!Idle
  BY DEF BackupIInv, BackupTypes, B!Updating, B!Idle
<1> QED
  BY <1>1 DEF BackupIInv, CallsHold, LockIsHeld, Holds, CallRecords, B!Updating

LEMMA ReadDocumentKeeps ==
  ASSUME B!BackupAssumption, BackupIInv, NEW p \in Keepers, B!ReadDocument(p)
  PROVE  BackupIInv'
<1>1. PICK pc \in {"checking", "unlocking"} :
        caller' = [caller EXCEPT ![p] = [caller[p] EXCEPT !.doc = inventory, !.pc = pc]]
  <2>1. caller' = [caller EXCEPT ![p] = [caller[p] EXCEPT !.doc = inventory, !.pc =
                      IF B!ValidDocument(inventory) THEN "checking" ELSE "unlocking"]]
    BY DEF B!ReadDocument
  <2> QED
    BY <2>1
<1> PICK c : c = [caller[p] EXCEPT !.doc = inventory, !.pc = pc]
  OBVIOUS
<1>2. caller' = [caller EXCEPT ![p] = c]
  BY <1>1
<1>3. /\ caller[p].pc = "reading"
      /\ UNCHANGED <<inventory, next, lockFile, artifacts, signed, retirements, created, failed>>
  BY DEF B!ReadDocument, B!files, B!counts, B!ghosts
<1>4. /\ caller[p] \in CallRecords /\ caller[p].outcome = "failed"
      /\ lockFile = p /\ lockFile' = p
  BY <1>3, Holder DEF B!Updating
<1>5. inventory \in Seq(B!Entries)
  BY DEF BackupIInv, BackupTypes
<1>6. /\ c \in CallRecords /\ c.pc = pc /\ c.kind = caller[p].kind /\ c.doc = inventory
      /\ c.manifest = caller[p].manifest /\ c.outcome = caller[p].outcome
  BY <1>4, <1>5 DEF CallRecords, BackupSteps
<1>7. Proceeds(p, c)
  BY <1>2, <1>3, <1>4, <1>6 DEF Proceeds
<1> QED
  BY <1>3, <1>4, <1>6, <1>7, StepKeeps

(* What is checked is what is in the inventory, and is written from it.    *)
LEMMA WriteNextKeeps ==
  ASSUME B!BackupAssumption, BackupIInv, NEW p \in Keepers, B!WriteNext(p)
  PROVE  BackupIInv'
<1>1. /\ caller[p].pc = "checking"
      /\ UNCHANGED <<inventory, lockFile, artifacts, signed, retirements, created, failed>>
  BY DEF B!WriteNext, B!counts, B!ghosts
<1>2. /\ caller[p] \in CallRecords /\ caller[p].outcome = "failed"
      /\ caller[p].doc = inventory /\ lockFile = p /\ lockFile' = p
  BY <1>1, Holder DEF B!Updating, Holds
<1>3. DOMAIN caller[p].doc = 1..Len(caller[p].doc)
  BY <1>2 DEF CallRecords
<1>4. (B!MayUpdate(p) <=> Allowed(caller[p])) /\ B!Updated(p) = NextDoc(caller[p])
  BY <1>3 DEF B!MayUpdate, B!MayRegister, B!MayRetire, Allowed, B!Updated, B!Registered, B!Retired,
              NextDoc
<1>5. CASE Allowed(caller[p]) /\ next = B!None
  <2> PICK c : c = [caller[p] EXCEPT !.pc = "renaming"]
    OBVIOUS
  <2>1. caller' = [caller EXCEPT ![p] = c] /\ next' = [doc |-> NextDoc(caller[p])]
    BY <1>4, <1>5 DEF B!WriteNext
  <2>2. /\ c \in CallRecords /\ c.pc = "renaming" /\ c.kind = caller[p].kind
        /\ c.doc = caller[p].doc
        /\ c.manifest = caller[p].manifest /\ c.outcome = caller[p].outcome
    BY <1>2 DEF CallRecords, BackupSteps
  <2>3. Allowed(c) /\ NextDoc(c) = NextDoc(caller[p])
    BY <1>5, <2>2 DEF Allowed, NextDoc
  <2>4. Proceeds(p, c)
    BY <1>1, <1>2, <2>1, <2>2, <2>3 DEF Proceeds
  <2> QED
    BY <1>1, <1>2, <2>2, <2>4, StepKeeps
<1>6. CASE ~(Allowed(caller[p]) /\ next = B!None)
  <2> PICK c : c = [caller[p] EXCEPT !.pc = "unlocking"]
    OBVIOUS
  <2>1. caller' = [caller EXCEPT ![p] = c] /\ UNCHANGED next
    BY <1>4, <1>6 DEF B!WriteNext
  <2>2. /\ c \in CallRecords /\ c.pc = "unlocking" /\ c.kind = caller[p].kind
        /\ c.manifest = caller[p].manifest /\ c.outcome = caller[p].outcome
    BY <1>2 DEF CallRecords, BackupSteps
  <2>3. Proceeds(p, c)
    BY <1>1, <1>2, <2>1, <2>2 DEF Proceeds
  <2> QED
    BY <1>1, <1>2, <2>2, <2>3, StepKeeps
<1> QED
  BY <1>5, <1>6

(* A write or a rename that fails, whatever it leaves.                     *)
LEMMA UpdateFailsKeeps ==
  ASSUME B!BackupAssumption, BackupIInv, NEW p \in Keepers, B!WriteFails(p) \/ B!RenameFails(p)
  PROVE  BackupIInv'
<1> PICK c : c = [caller[p] EXCEPT !.pc = "unlocking"]
  OBVIOUS
<1>1. /\ caller[p].pc \in {"checking", "renaming"} /\ caller' = [caller EXCEPT ![p] = c]
      /\ UNCHANGED <<inventory, lockFile, artifacts, signed, retirements, created, failed>>
  BY DEF B!WriteFails, B!RenameFails, B!counts, B!ghosts
<1>2. /\ caller[p] \in CallRecords /\ caller[p].outcome = "failed"
      /\ lockFile = p /\ lockFile' = p
  BY <1>1, Holder DEF B!Updating
<1>3. /\ c \in CallRecords /\ c.pc = "unlocking" /\ c.kind = caller[p].kind
      /\ c.manifest = caller[p].manifest /\ c.outcome = caller[p].outcome
  BY <1>2 DEF CallRecords, BackupSteps
<1>4. Proceeds(p, c)
  BY <1>1, <1>2, <1>3 DEF Proceeds
<1> QED
  BY <1>1, <1>2, <1>3, <1>4, StepKeeps

LEMMA UnlockKeeps ==
  ASSUME B!BackupAssumption, BackupIInv, NEW p \in Keepers, B!Unlock(p)
  PROVE  BackupIInv'
<1>1. /\ caller[p].pc = "unlocking" /\ lockFile' \in {B!Free, B!Stale}
      /\ B!Ends(p, caller[p].outcome) \/ B!Ends(p, "unclear")
      /\ UNCHANGED <<inventory, next, artifacts, signed, retirements>>
  BY DEF B!Unlock, B!counts
<1>2. caller[p] # B!Idle /\ lockFile = p
  BY <1>1, Holder DEF B!Updating
<1> PICK o \in {caller[p].outcome, "unclear"} : B!Ends(p, o)
  BY <1>1
<1>3. /\ BackupTypes' /\ ManifestsAreOwn' /\ Answered'
      /\ caller' = [caller EXCEPT ![p] = B!Idle]
  BY <1>1, <1>2, CallEnds
<1>4. CallsHold'
  BY <1>1, <1>3, OneCallMoves
<1>5. LockIsHeld'
  BY <1>1, <1>2, <1>3, Holder DEF BackupIInv, BackupTypes, LockIsHeld, B!Updating, B!Idle, B!BackupAssumption,
                                  B!Free, B!Stale
<1> QED
  BY <1>1, <1>3, <1>4, <1>5, ChainKept DEF BackupIInv

(* A process that dies forgets its call and leaves what it made.           *)
LEMMA CrashKeeps ==
  ASSUME B!BackupAssumption, BackupIInv, NEW p \in Keepers, B!Crash(p)
  PROVE  BackupIInv'
<1>1. /\ caller[p] # B!Idle /\ caller' = [caller EXCEPT ![p] = B!Idle]
      /\ lockFile' = IF lockFile = p THEN B!Stale ELSE lockFile
      /\ UNCHANGED <<inventory, next, artifacts, signed, retirements, created, failed>>
  BY DEF B!Crash, B!counts, B!ghosts
<1>2. BackupTypes'
  BY <1>1 DEF BackupIInv, BackupTypes
<1>3. /\ caller'[p] = B!Idle
      /\ \A q \in Keepers : q # p => caller'[q] = caller[q]
  BY <1>1 DEF BackupIInv, BackupTypes
<1>4. CallsHold'
  BY <1>1, OneCallMoves
<1>5. ManifestsAreOwn'
  BY <1>1, <1>3 DEF BackupIInv, ManifestsAreOwn, Registering
<1>6. Answered'
  BY <1>1 DEF BackupIInv, Answered, IsSigned, IsRegistered, IsUnregistered
<1>7. LockIsHeld'
  BY <1>1, <1>3 DEF BackupIInv, LockIsHeld, B!Updating, B!Idle, B!BackupAssumption, B!Free, B!Stale
<1> QED
  BY <1>1, <1>2, <1>4, <1>5, <1>6, <1>7, ChainKept DEF BackupIInv

LEMMA ClearStaleKeeps == B!BackupAssumption /\ BackupIInv /\ B!ClearStale => BackupIInv'
<1> SUFFICES ASSUME B!BackupAssumption, BackupIInv, B!ClearStale PROVE BackupIInv'
  OBVIOUS
<1>1. /\ lockFile \in {B!Stale, B!Free} /\ lockFile' = B!Free /\ next' = B!None
      /\ UNCHANGED <<inventory, artifacts, caller, signed, retirements, created, failed>>
  BY DEF B!ClearStale, B!counts, B!ghosts
<1>2. \A p \in Keepers : ~B!Updating(p)
  BY <1>1 DEF BackupIInv, LockIsHeld, B!BackupAssumption, B!Stale, B!Free
<1>3. BackupTypes' /\ ManifestsAreOwn' /\ Answered'
  BY <1>1 DEF BackupIInv, BackupTypes, ManifestsAreOwn, Registering, Answered, IsSigned, IsRegistered,
              IsUnregistered
<1>4. CallsHold'
  BY <1>1, <1>2 DEF BackupIInv, CallsHold, Holds, IsSigned, IsRegistered, IsUnregistered, Allowed,
                    NextDoc, B!Updating
<1>5. LockIsHeld'
  BY <1>1, <1>2 DEF LockIsHeld, B!Updating, B!BackupAssumption, B!Free
<1> QED
  BY <1>1, <1>3, <1>4, <1>5, ChainKept DEF BackupIInv

(* Only what its entry says is retired is removed, never what a call is    *)
(* about to register.                                                      *)
LEMMA RemoveArtifactKeeps ==
  ASSUME B!BackupAssumption, BackupIInv, NEW a \in artifacts, B!RemoveArtifact(a)
  PROVE  BackupIInv'
<1>1. /\ inventory[a.generation] = [digest |-> a.digest, status |-> "deleted"]
      /\ artifacts' = artifacts \ {a}
      /\ UNCHANGED <<inventory, next, lockFile, caller, signed, retirements, created, failed>>
  BY DEF B!RemoveArtifact, B!counts, B!ghosts
<1>2. a.generation \in 1..Len(inventory)
  BY DEF B!RemoveArtifact, BackupIInv, BackupTypes
<1>3. inventory[a.generation].digest = a.digest /\ inventory[a.generation].status = "deleted"
  BY <1>1
<1>4. BackupTypes' /\ ManifestsAreOwn' /\ Answered' /\ LockIsHeld'
  BY <1>1 DEF BackupIInv, BackupTypes, ManifestsAreOwn, Registering, Answered, IsSigned, IsRegistered,
              IsUnregistered, LockIsHeld, B!Updating
<1>5. EntriesAreSigned'
  <2> SUFFICES ASSUME NEW k \in 1..Len(inventory)
               PROVE  /\ inventory[k].digest \in 1..Len(signed)
                      /\ signed[inventory[k].digest].generation = k
                      /\ inventory[k].status = "retained" =>
                           signed[inventory[k].digest] \in artifacts'
    BY <1>1 DEF EntriesAreSigned
  <2>1. /\ inventory[k].digest \in 1..Len(signed)
        /\ signed[inventory[k].digest].generation = k
        /\ inventory[k].status = "retained" => signed[inventory[k].digest] \in artifacts
    BY DEF BackupIInv, Chain, EntriesAreSigned
  <2>2. inventory[k].status = "retained" => signed[inventory[k].digest] # a
    BY <1>3, <2>1
  <2> QED
    BY <1>1, <2>1, <2>2
<1>6. Chain'
  BY <1>1, <1>5 DEF BackupIInv, Chain, SignedContinue, LastIsRetained, ArtifactsAreSigned, IsSigned
<1>7. CallsHold'
  <2> SUFFICES ASSUME NEW p \in Keepers, caller[p] # B!Idle PROVE Holds(caller[p])'
    BY <1>1 DEF CallsHold
  <2>1. Holds(caller[p]) /\ caller[p] \in CallRecords
    BY DEF BackupIInv, CallsHold, BackupTypes
  <2>2. caller[p].kind = "register" /\ caller[p].pc # "unlocking" =>
          caller[p].manifest # a
    BY <1>2, <1>3, <2>1 DEF Holds, IsUnregistered, CallRecords
  <2> QED
    BY <1>1, <2>1, <2>2 DEF Holds, IsSigned, IsRegistered, IsUnregistered, Allowed, NextDoc
<1> QED
  BY <1>4, <1>6, <1>7 DEF BackupIInv

-----------------------------------------------------------------------------
(* The rename.  The document of its holder is the inventory, and what is   *)
(* renamed to it has one entry more, or one entry retired.                 *)

LEMMA Renames ==
  ASSUME B!BackupAssumption, BackupIInv, NEW p \in Keepers, B!Rename(p)
  PROVE  /\ caller[p] \in CallRecords /\ caller[p] # B!Idle /\ Holds(caller[p])
         /\ lockFile = p /\ caller[p].outcome = "failed"
         /\ caller[p].doc = inventory /\ Allowed(caller[p])
         /\ inventory' = NextDoc(caller[p]) /\ next' = B!None
         /\ caller' = [caller EXCEPT ![p] =
              [caller[p] EXCEPT !.pc = "unlocking", !.outcome = "done"]]
         /\ UNCHANGED <<lockFile, artifacts, signed, retirements, created, failed>>
<1>1. caller[p].pc = "renaming"
  BY DEF B!Rename
<1>2. /\ caller[p] \in CallRecords /\ caller[p] # B!Idle /\ Holds(caller[p])
      /\ lockFile = p /\ caller[p].outcome = "failed"
  BY <1>1, Holder DEF B!Updating
<1>3. caller[p].doc = inventory /\ Allowed(caller[p]) /\ next = [doc |-> NextDoc(caller[p])]
  BY <1>1, <1>2 DEF Holds
<1> QED
  BY <1>2, <1>3 DEF B!Rename, B!counts, B!ghosts

(* A rename adds an entry for the manifest of its call, which has the next *)
(* place, or marks as deleted an entry that is not the last.               *)
LEMMA RenameEffect ==
  ASSUME B!BackupAssumption, BackupIInv, NEW p \in Keepers, B!Rename(p)
  PROVE  /\ Len(inventory) \in Nat
         /\ inventory' \in Seq(B!Entries) /\ Len(inventory') \in Nat
         /\ \A k \in 1..Len(inventory) :
              k \in 1..Len(inventory') /\ inventory'[k].digest = inventory[k].digest
         /\ \/ /\ caller[p].kind = "register" /\ Len(inventory') = Len(inventory) + 1
               /\ caller[p].manifest.generation = Len(inventory) + 1
               /\ inventory'[Len(inventory) + 1].digest = caller[p].manifest.digest
               /\ inventory'[Len(inventory) + 1].status = "retained"
               /\ \A k \in 1..Len(inventory) : inventory'[k] = inventory[k]
            \/ /\ caller[p].kind = "retire" /\ Len(inventory') = Len(inventory)
               /\ \A k \in 1..Len(inventory) : inventory'[k].status \in {inventory[k].status, "deleted"}
               /\ inventory'[Len(inventory)] = inventory[Len(inventory)]
<1> PICK m : m = caller[p].manifest
  OBVIOUS
<1>1. /\ caller[p] \in CallRecords /\ Holds(caller[p]) /\ caller[p].doc = inventory
      /\ Allowed(caller[p]) /\ inventory' = NextDoc(caller[p])
      /\ caller[p].pc = "renaming"
  BY Renames DEF B!Rename
<1>2. inventory \in Seq(B!Entries) /\ Len(inventory) \in Nat
  BY DEF BackupIInv, BackupTypes
<1>3. CASE caller[p].kind = "register"
  <2> PICK e : e = [digest |-> m.digest, status |-> "retained"]
    OBVIOUS
  <2>1. m.generation = Len(inventory) + 1 /\ inventory' = Append(inventory, e)
    BY <1>1, <1>3 DEF Allowed, NextDoc
  <2>2. m.digest \in 1..Len(signed) /\ Len(signed) \in Nat /\ Len(signed) <= MaxBackups
        /\ MaxBackups \in Nat
    BY <1>1, <1>3 DEF Holds, IsSigned, BackupIInv, BackupTypes, B!BackupAssumption
  <2>3. e \in B!Entries
    BY <2>2 DEF B!Entries
  <2>4. /\ inventory' \in Seq(B!Entries) /\ Len(inventory') = Len(inventory) + 1
        /\ \A k \in 1..Len(inventory) : inventory'[k] = inventory[k]
        /\ inventory'[Len(inventory) + 1] = e
    BY <1>2, <2>1, <2>3
  <2>5. \A k \in 1..Len(inventory) : k \in 1..Len(inventory')
    BY <1>2, <2>4
  <2>6. e.digest = m.digest /\ e.status = "retained" /\ Len(inventory') \in Nat
    BY <1>2, <2>4
  <2> QED
    BY <1>2, <1>3, <2>1, <2>4, <2>5, <2>6
<1>4. CASE caller[p].kind = "retire"
  <2> PICK g, e : g = m.generation /\ e = [inventory[g] EXCEPT !.status = "deleted"]
    OBVIOUS
  <2>1. /\ g \in 1..Len(inventory) /\ g # Len(inventory)
        /\ inventory' = [inventory EXCEPT ![g] = e]
    BY <1>1, <1>4 DEF Allowed, NextDoc
  <2>2. inventory[g] \in B!Entries
    BY <1>2, <2>1
  <2>3. e \in B!Entries /\ e.digest = inventory[g].digest /\ e.status = "deleted"
    BY <2>2 DEF B!Entries
  <2>4. /\ inventory' \in Seq(B!Entries) /\ Len(inventory') = Len(inventory)
        /\ \A k \in 1..Len(inventory) : inventory'[k] = IF k = g THEN e ELSE inventory[k]
    BY <1>2, <2>1, <2>3, ExceptSeq
  <2>5. Len(inventory) \in 1..Len(inventory)
    BY <1>2, <2>1
  <2> QED
    BY <1>2, <1>4, <2>1, <2>3, <2>4, <2>5
<1> QED
  BY <1>1, <1>3, <1>4 DEF CallRecords

LEMMA RenameKeeps ==
  ASSUME B!BackupAssumption, BackupIInv, NEW p \in Keepers, B!Rename(p)
  PROVE  BackupIInv'
<1> PICK m, n, c : /\ m = caller[p].manifest /\ n = Len(inventory)
                   /\ c = [caller[p] EXCEPT !.pc = "unlocking", !.outcome = "done"]
  OBVIOUS
<1>1. /\ caller[p] \in CallRecords /\ caller[p] # B!Idle /\ Holds(caller[p])
      /\ lockFile = p /\ caller[p].outcome = "failed"
      /\ next' = B!None /\ caller' = [caller EXCEPT ![p] = c]
      /\ UNCHANGED <<lockFile, artifacts, signed, retirements, created, failed>>
      /\ caller[p].pc = "renaming"
  BY Renames DEF B!Rename
<1>2. /\ n \in Nat /\ inventory' \in Seq(B!Entries) /\ Len(inventory') \in Nat
      /\ \A k \in 1..n :
           k \in 1..Len(inventory') /\ inventory'[k].digest = inventory[k].digest
      /\ \/ /\ caller[p].kind = "register" /\ Len(inventory') = n + 1
            /\ m.generation = n + 1
            /\ inventory'[n + 1].digest = m.digest
            /\ inventory'[n + 1].status = "retained"
            /\ \A k \in 1..n : inventory'[k] = inventory[k]
         \/ /\ caller[p].kind = "retire" /\ Len(inventory') = n
            /\ \A k \in 1..n : inventory'[k].status \in {inventory[k].status, "deleted"}
            /\ inventory'[n] = inventory[n]
  BY RenameEffect
<1>3. /\ c \in CallRecords /\ c.pc = "unlocking" /\ c.outcome = "done"
      /\ c.kind = caller[p].kind /\ c.manifest = m /\ c # B!Idle
  BY <1>1 DEF CallRecords, BackupSteps, B!Idle
<1>4. caller[p].kind = "register" =>
        IsSigned(m) /\ IsUnregistered(m) /\ m \in artifacts /\ m = signed[m.digest]
  BY <1>1 DEF Holds, IsSigned
<1>5. \A k \in 1..Len(inventory') : k \in 1..n \/ (caller[p].kind = "register" /\ k = n + 1)
  <2>1. n \in Nat /\ (Len(inventory') = n \/ (caller[p].kind = "register" /\ Len(inventory') = n + 1))
    BY <1>2
  <2> QED
    BY <2>1
<1>6. /\ caller'[p] = c
      /\ \A q \in Keepers : q # p => caller'[q] = caller[q]
  BY <1>1 DEF BackupIInv, BackupTypes
<1>7. BackupTypes'
  BY <1>1, <1>2, <1>3 DEF BackupIInv, BackupTypes
<1>8. Chain'
  <2>1. SignedContinue'
    <3> SUFFICES ASSUME NEW d \in 1..Len(signed)
                 PROVE  /\ signed[d].digest = d
                        /\ signed[d].generation \in 1..(Len(inventory') + 1)
                        /\ signed[d].generation <= d
                        /\ signed[d].parent = (IF signed[d].generation = 1 THEN 0
                              ELSE inventory'[signed[d].generation - 1].digest)
      BY <1>1 DEF SignedContinue
    <3>1. /\ signed[d].digest = d
          /\ signed[d].generation \in 1..(n + 1) /\ signed[d].generation <= d
          /\ signed[d].parent = (IF signed[d].generation = 1 THEN 0
                ELSE inventory[signed[d].generation - 1].digest)
      BY DEF BackupIInv, Chain, SignedContinue
    <3>2. signed[d].generation # 1 => signed[d].generation - 1 \in 1..n
      BY <1>2, <3>1
    <3> QED
      BY <1>2, <3>1, <3>2
  <2>2. EntriesAreSigned'
    <3> SUFFICES ASSUME NEW k \in 1..Len(inventory')
                 PROVE  /\ inventory'[k].digest \in 1..Len(signed)
                        /\ signed[inventory'[k].digest].generation = k
                        /\ inventory'[k].status = "retained" =>
                             signed[inventory'[k].digest] \in artifacts
      BY <1>1 DEF EntriesAreSigned
    <3>1. CASE k \in 1..n
      BY <1>2, <3>1 DEF BackupIInv, Chain, EntriesAreSigned
    <3>2. CASE caller[p].kind = "register" /\ k = n + 1
      BY <1>2, <1>4, <3>2 DEF IsSigned
    <3> QED
      BY <1>5, <3>1, <3>2
  <2>3. LastIsRetained'
    <3>1. CASE caller[p].kind = "register"
      BY <1>2, <3>1 DEF LastIsRetained
    <3>2. CASE caller[p].kind = "retire"
      <4>1. inventory # <<>> <=> n # 0
        BY <1>2 DEF BackupIInv, BackupTypes
      <4>2. inventory' # <<>> <=> n # 0
        BY <1>2, <3>2
      <4> QED
        BY <1>2, <3>2, <4>1, <4>2 DEF BackupIInv, Chain, LastIsRetained
    <3> QED
      BY <1>1, <3>1, <3>2 DEF CallRecords
  <2>4. ArtifactsAreSigned'
    BY <1>1 DEF BackupIInv, Chain, ArtifactsAreSigned, IsSigned
  <2> QED
    BY <2>1, <2>2, <2>3, <2>4 DEF Chain
<1>9. \A a : (a.digest # m.digest \/ caller[p].kind # "register") /\ IsUnregistered(a)
             => IsUnregistered(a)'
  BY <1>2, <1>5 DEF IsUnregistered
<1>10. \A a : IsRegistered(a) => IsRegistered(a)'
  BY <1>2 DEF IsRegistered
<1>11. CallsHold'
  <2> SUFFICES ASSUME NEW q \in Keepers, caller'[q] # B!Idle PROVE Holds(caller[q])'
    BY DEF CallsHold
  <2>1. CASE q = p
    <3>1. caller[p].kind = "register" => IsRegistered(m)'
      BY <1>2 DEF IsRegistered
    <3>2. caller[p].kind = "register" => IsSigned(m)'
      BY <1>1, <1>4 DEF IsSigned
    <3>3. Holds(c)'
      BY <1>1, <1>3, <3>1, <3>2 DEF Holds
    <3> QED
      BY <1>6, <2>1, <3>3
      DEF Holds, IsSigned, IsRegistered, IsUnregistered, Allowed, NextDoc
  <2>2. CASE q # p
    <3>1. caller'[q] = caller[q] /\ Holds(caller[q]) /\ ~B!Updating(q)
      BY <1>1, <1>6, <2>2 DEF BackupIInv, CallsHold, LockIsHeld
    <3>2. Registering(p) /\ Registering(q) => caller[q].manifest.digest # m.digest
      BY <2>2 DEF BackupIInv, ManifestsAreOwn
    <3>3. caller[q].kind = "register" =>
            /\ caller[q].outcome = "done" => IsRegistered(caller[q].manifest)'
            /\ caller[q].outcome = "failed" => IsUnregistered(caller[q].manifest)'
      BY <1>1, <1>6, <1>9, <1>10, <3>1, <3>2 DEF Holds, Registering
    <3> QED
      BY <1>1, <3>1, <3>3 DEF Holds, B!Updating, IsSigned, IsRegistered, IsUnregistered
  <2> QED
    BY <2>1, <2>2
<1>12. ManifestsAreOwn'
  BY <1>1, <1>3, <1>6 DEF BackupIInv, ManifestsAreOwn, Registering
<1>13. Answered'
  <2>1. \A a \in failed : Registering(p) => a.digest # m.digest
    BY DEF BackupIInv, ManifestsAreOwn
  <2> QED
    BY <1>1, <1>9, <1>10, <2>1 DEF BackupIInv, Answered, IsSigned, Registering
<1>14. LockIsHeld'
  BY <1>1, <1>3, <1>6 DEF BackupIInv, LockIsHeld, B!Updating
<1> QED
  BY <1>7, <1>8, <1>11, <1>12, <1>13, <1>14 DEF BackupIInv

LEMMA NextInvariant == B!BackupAssumption /\ BackupIInv /\ [B!Next]_(B!vars) => BackupIInv'
<1> SUFFICES ASSUME B!BackupAssumption, BackupIInv, [B!Next]_(B!vars) PROVE BackupIInv'
  OBVIOUS
<1>1. CASE UNCHANGED B!vars
  <2>1. UNCHANGED <<inventory, next, lockFile, artifacts, caller, retirements, signed,
                    created, failed>>
    BY <1>1 DEF B!vars, B!files, B!counts, B!ghosts
  <2>2. BackupTypes' /\ ManifestsAreOwn' /\ Answered' /\ LockIsHeld'
    BY <2>1 DEF BackupIInv, BackupTypes, ManifestsAreOwn, Registering, Answered, IsSigned, IsRegistered,
                IsUnregistered, LockIsHeld, B!Updating
  <2>3. CallsHold'
    BY <2>1 DEF BackupIInv, CallsHold, Holds, IsSigned, IsRegistered, IsUnregistered, Allowed, NextDoc
  <2> QED
    BY <2>1, <2>2, <2>3, ChainKept DEF BackupIInv
<1>2. CASE B!Next
  BY <1>2, StartBackupKeeps, PersistKeeps, PersistFailsKeeps, StartRetirementKeeps, TakeLockKeeps,
     ReadDocumentKeeps, WriteNextKeeps, RenameKeeps, UpdateFailsKeeps, UnlockKeeps, CrashKeeps,
     ClearStaleKeeps, RemoveArtifactKeeps DEF B!Next
<1> QED
  BY <1>1, <1>2

LEMMA InductiveInvariant == ASSUME B!BackupAssumption PROVE B!Spec => []BackupIInv
<1>1. B!Init => BackupIInv
  BY BackupInitInvariant
<1>2. BackupIInv /\ [B!Next]_(B!vars) => BackupIInv'
  BY NextInvariant
<1> QED
  BY <1>1, <1>2, PTL DEF B!Spec

-----------------------------------------------------------------------------
(* The theorems.                                                           *)

(* Shapes; the lock file is that of the one process that updates the       *)
(* inventory, whichever call fails and whichever process dies at           *)
(* whichever call (fileBackupInventory.ts, withLock).                      *)
THEOREM BackupTypeCorrect == ASSUME B!BackupAssumption PROVE B!Spec => []B!TypeOK
<1>1. BackupIInv => B!TypeOK
  <2> SUFFICES ASSUME BackupIInv PROVE B!TypeOK
    OBVIOUS
  <2>1. artifacts \subseteq B!Manifests
    BY DEF BackupIInv, BackupTypes, Chain, ArtifactsAreSigned, IsSigned
  <2> QED
    BY <2>1 DEF BackupIInv, BackupTypes, LockIsHeld, B!TypeOK
<1> QED
  BY <1>1, InductiveInvariant, PTL

(* Every registered generation continues the one before it, whatever       *)
(* backups were made at the same time, failed or were given up             *)
(* (keyCustody.ts, create; fileBackupInventory.ts, register).              *)
THEOREM TheChainIsLinked == ASSUME B!BackupAssumption PROVE B!Spec => []B!ChainIsLinked
<1>1. BackupIInv => B!ChainIsLinked
  <2> SUFFICES ASSUME BackupIInv, NEW k \in DOMAIN inventory
               PROVE  /\ signed[inventory[k].digest].generation = k
                      /\ signed[inventory[k].digest].parent =
                           (IF k = 1 THEN 0 ELSE inventory[k - 1].digest)
    BY DEF B!ChainIsLinked
  <2>1. k \in 1..Len(inventory)
    BY DEF BackupIInv, BackupTypes
  <2> QED
    BY <2>1 DEF BackupIInv, Chain, EntriesAreSigned, SignedContinue
<1> QED
  BY <1>1, InductiveInvariant, PTL

(* A backup that was answered keeps its place in the inventory, and one    *)
(* whose caller saw it fail is never registered (keyCustody.ts, create).   *)
THEOREM BackupAnswersStayTrue == ASSUME B!BackupAssumption PROVE B!Spec => []B!AnswersAreTrue
<1>1. BackupIInv => B!AnswersAreTrue
  <2> SUFFICES ASSUME BackupIInv PROVE B!AnswersAreTrue
    OBVIOUS
  <2>1. DOMAIN inventory = 1..Len(inventory)
    BY DEF BackupIInv, BackupTypes
  <2> QED
    BY <2>1 DEF BackupIInv, Answered, IsRegistered, IsUnregistered, B!AnswersAreTrue
<1> QED
  BY <1>1, InductiveInvariant, PTL

(* Once there is a backup there is exactly one that can be restored: the   *)
(* current one is stored before it is registered and not removed while it  *)
(* is current, and no orphan of its generation verifies in its place.      *)
THEOREM OneStaysRestorable == ASSUME B!BackupAssumption PROVE B!Spec => []B!OneIsRestorable
<1>1. BackupIInv => B!OneIsRestorable
  <2> SUFFICES ASSUME BackupIInv, inventory # <<>>
               PROVE  Cardinality({a \in artifacts : B!Verifies(a)}) = 1
    BY BackupCounts DEF B!OneIsRestorable
  <2> PICK n, d, s : n = Len(inventory) /\ d = inventory[n].digest /\ s = signed[d]
    OBVIOUS
  <2>1. n \in 1..Len(inventory)
    BY DEF BackupIInv, BackupTypes
  <2>2. inventory[n].status = "retained" /\ B!ValidDocument(inventory) /\ B!DigestOf(inventory) = d
    BY DEF BackupIInv, Chain, LastIsRetained, B!ValidDocument, B!DigestOf
  <2>3. s \in artifacts /\ s.digest = d /\ s.generation = n
    BY <2>1, <2>2 DEF BackupIInv, Chain, EntriesAreSigned, SignedContinue
  <2>4. \A a \in artifacts : B!Verifies(a) => a = s
    BY <2>2 DEF B!Verifies, BackupIInv, Chain, ArtifactsAreSigned, IsSigned
  <2>5. B!Verifies(s)
    BY <2>2, <2>3 DEF B!Verifies
  <2>6. {a \in artifacts : B!Verifies(a)} = {s}
    BY <2>3, <2>4, <2>5
  <2> QED
    BY <2>6, FS_Singleton
<1> QED
  BY <1>1, InductiveInvariant, PTL

(* No step takes an entry out of the history, changes whose it is, or      *)
(* brings back what was retired (fileBackupInventory.ts, update).          *)
THEOREM TheHistoryIsKept == ASSUME B!BackupAssumption PROVE B!Spec => [][B!HistoryIsKept]_(B!vars)
<1>1. BackupIInv /\ [B!Next]_(B!vars) => [B!HistoryIsKept]_(B!vars)
  <2> SUFFICES ASSUME BackupIInv, B!Next PROVE B!HistoryIsKept
    OBVIOUS
  <2>1. DOMAIN inventory = 1..Len(inventory) /\ Len(inventory) \in Nat
    BY DEF BackupIInv, BackupTypes
  <2>2. ASSUME NEW p \in Keepers, B!Rename(p) PROVE B!HistoryIsKept
    <3>1. /\ Len(inventory') \in Nat /\ Len(inventory') >= Len(inventory)
          /\ \A k \in 1..Len(inventory) :
               /\ inventory'[k].digest = inventory[k].digest
               /\ inventory'[k].status \in {inventory[k].status, "deleted"}
      BY <2>1, <2>2, RenameEffect
    <3> QED
      BY <2>1, <3>1 DEF B!HistoryIsKept
  <2>3. (\E p \in Keepers : B!Rename(p)) \/ UNCHANGED inventory
    BY DEF B!Next, B!StartBackup, B!Persist, B!PersistFails, B!StartRetirement, B!TakeLock, B!ReadDocument,
           B!WriteNext, B!WriteFails, B!RenameFails, B!Unlock, B!Crash, B!ClearStale, B!RemoveArtifact, B!files
  <2>4. CASE UNCHANGED inventory
    BY <2>1, <2>4 DEF B!HistoryIsKept
  <2> QED
    BY <2>2, <2>3, <2>4
<1> QED
  BY <1>1, InductiveInvariant, PTL DEF B!Spec

(***************************************************************************)
(* The databases that are restored.                                        *)
(***************************************************************************)

(* An instance counts as this module does.                                 *)
LEMMA RestoreCounts ==
  \A S : R!Cardinality(S) = Cardinality(S) /\ (R!IsFiniteSet(S) <=> IsFiniteSet(S))
  BY DEF R!Cardinality, Cardinality, R!IsFiniteSet, IsFiniteSet

-----------------------------------------------------------------------------
(* The inductive invariant.                                                *)

RestoreReports == [ledger : Seq(STRING), rows : Nat]
SnapshotRows == UNION Snapshots
DumpedRows == UNION {d.data : d \in Dumps}
AllRows == SnapshotRows \cup DumpedRows \cup {Written}

ApplyRecords ==
  [step : {"apply"}, config : R!Runtimes, next : Nat \ {0}, ledger : Seq(STRING)]
MigratorRecords ==
  {R!Off} \cup [step : {"lock", "select", "insert"}, config : R!Runtimes] \cup ApplyRecords
AppRecords == {R!Off} \cup [step : {"up"}, config : R!Runtimes]
RestorerRecords == {R!Off} \cup [step : {"insert"}, rows : Snapshots]
OperatorRecords ==
  {R!Off} \cup [step : {"look"}, id : PromotionIds, rows : SUBSET AllRows]
        \cup [step : {"accepted", "answered"}, id : PromotionIds, report : RestoreReports]
        \cup [step : {"inspect", "commit"}, id : PromotionIds, report : RestoreReports,
              rows : SUBSET AllRows]

RestoreTypes ==
  /\ ledger \in Seq(STRING)
  /\ runtime \in R!Runtimes \cup {NoRuntime}
  /\ data \in SUBSET AllRows /\ IsFiniteSet(data)
  /\ DOMAIN promotions \subseteq PromotionIds /\ IsFiniteSet(DOMAIN promotions)
  /\ mig \in [Migrators -> MigratorRecords]
  /\ app \in [Apps -> AppRecords]
  /\ restorer \in [Restorers -> RestorerRecords]
  /\ op \in [Operators -> OperatorRecords]
  /\ overlapped \in BOOLEAN
  /\ crashes \in 0..MaxCrashes

IsLive == runtime # NoRuntime /\ runtime.mode = "live"
IsSafe == runtime # NoRuntime /\ runtime.mode = "restore_safe"

(* A migration transaction has what was committed, or this release's first *)
(* migrations up to the one it has come to; nobody else has one.           *)
OneMigrates == \A m, n \in R!InMigration : m = n
Extends(t) ==
  /\ t.next <= Len(Migrations) + 1 /\ t.next - 1 <= Len(t.ledger)
  /\ t.ledger = ledger \/ t.next - 1 = Len(t.ledger)
  /\ \A i \in 1..(t.next - 1) : t.ledger[i] = Migrations[i]
MigrationsExtend == OneMigrates /\ \A m \in R!InMigration : Extends(mig[m])

(* A process that is up verified a configuration the database still has,   *)
(* but for a promotion since; and until then it has not written.           *)
AppsAreVerified ==
  /\ \A p \in Apps : app[p].step = "up" =>
       runtime # NoRuntime /\ (app[p].config.mode = "live" => IsLive)
  /\ IsLive \/ Written \notin data

(* A promotion that is under way is alone, on a restore-safe database, and *)
(* not on record yet.                                                      *)
PromotionIsNew ==
  /\ \A o, n \in R!InPromotion : o = n
  /\ \A o \in R!InPromotion : op[o].id \notin DOMAIN promotions /\ IsSafe
  /\ \A a \in answers : ~a.duplicate => runtime # NoRuntime

RestoreIInv ==
  RestoreTypes /\ MigrationsExtend /\ AppsAreVerified /\ PromotionIsNew /\ R!AnswersAreRecorded

(* What a promotion has read is still there when it commits, and coherent. *)
RowsAreRead ==
  /\ \A o \in R!InPromotion : op[o].rows \subseteq data
  /\ \A o \in Operators : op[o].step = "commit" => op[o].rows \cap BadRows = {}

(* Snapshots are added to an empty database, whole, and to no dump.        *)
RowsAreWhole ==
  \/ \E ss \in SUBSET Snapshots : data \ {Written} = UNION ss
  \/ R!Restoring = {} /\ data # {} /\ \E d \in Dumps : data \ {Written} = d.data

(* Unless restores overlapped: who restores is alone, in an empty          *)
(* restore-safe database, and a promotion has read all that is there.      *)
RestoresAreAlone ==
  /\ \A r, s \in R!Restoring : r = s
  /\ R!Restoring # {} => R!Promoting = {} /\ IsSafe /\ data = {}
  /\ \A o \in R!InPromotion : op[o].rows = data
AInv ==
  /\ RowsAreRead /\ RowsAreWhole /\ (~overlapped => RestoresAreAlone)
  /\ R!PromotedAsInspected /\ R!RestoreIsOneSnapshot
-----------------------------------------------------------------------------
(* Lemmas about the operators.                                             *)

LEMMA AtMostOne ==
  ASSUME NEW S, \A x, y \in S : x = y
  PROVE  Cardinality(S) <= 1
<1>1. CASE S = {}
  BY <1>1, FS_EmptySet
<1>2. CASE S # {}
  <2>1. PICK x \in S : S = {x}
    BY <1>2
  <2>. QED
    BY <2>1, FS_Singleton
<1>. QED
  BY <1>1, <1>2

LEMMA SomeRows ==
  ASSUME R!RestoreAssumption, NEW S \in SUBSET AllRows, IsFiniteSet(S), ledger \in Seq(STRING)
  PROVE  R!Report(S) \in RestoreReports
  BY RestoreCounts, FS_CardinalityType DEF R!Report, RestoreReports

LEMMA RowsAreKnown ==
  /\ \A s \in Snapshots : s \in SUBSET AllRows
  /\ \A d \in Dumps : d.data \in SUBSET AllRows
  /\ Written \in AllRows
<1>1. ASSUME NEW s \in Snapshots, NEW x \in s
      PROVE  x \in SnapshotRows
  BY <1>1 DEF SnapshotRows
<1>2. ASSUME NEW d \in Dumps, NEW x \in d.data
      PROVE  x \in DumpedRows
  <2>1. d.data \in {e.data : e \in Dumps}
    OBVIOUS
  <2>. QED
    BY <1>2, <2>1 DEF DumpedRows
<1>. QED
  BY <1>1, <1>2 DEF AllRows

-----------------------------------------------------------------------------
(* The invariant holds at first.                                           *)

LEMMA InitTypes ==
  ASSUME R!RestoreAssumption, R!RestoreInit
  PROVE  RestoreTypes
<1>1. /\ overlapped \in BOOLEAN
      /\ mig \in [Migrators -> MigratorRecords] /\ app \in [Apps -> AppRecords]
      /\ restorer \in [Restorers -> RestorerRecords] /\ op \in [Operators -> OperatorRecords]
  BY DEF R!RestoreInit, MigratorRecords, AppRecords, RestorerRecords, OperatorRecords
<1>2. crashes \in 0..MaxCrashes
  BY DEF R!RestoreInit, R!RestoreAssumption
<1>3. CASE /\ ledger = <<>> /\ data = {} /\ runtime = NoRuntime
           /\ promotions = <<>>
  <2>1. DOMAIN promotions = {}
    BY <1>3
  <2>. QED
    BY <1>1, <1>2, <1>3, <2>1, FS_EmptySet DEF RestoreTypes
<1>4. CASE \E d \in Dumps, i \in Installations :
          /\ ledger = d.ledger /\ data = d.data /\ promotions = d.promotions
          /\ runtime = [installation |-> i, mode |-> "restore_safe"]
  BY <1>1, <1>2, <1>4, RowsAreKnown, RestoreCounts DEF RestoreTypes, R!RestoreAssumption, R!Runtimes, R!Modes
<1>. QED
  BY <1>3, <1>4 DEF R!RestoreInit

LEMMA InitIInv ==
  ASSUME R!RestoreAssumption, R!RestoreInit
  PROVE  RestoreIInv
<1>1. /\ \A m \in Migrators : mig[m].step = "off"
      /\ \A p \in Apps : app[p].step = "off"
      /\ \A o \in Operators : op[o].step = "off"
  BY DEF R!RestoreInit, R!Off
<1>2. MigrationsExtend
  BY <1>1 DEF MigrationsExtend, OneMigrates, R!InMigration
<1>3. AppsAreVerified
  BY <1>1 DEF AppsAreVerified, R!RestoreInit, R!RestoreAssumption
<1>4. PromotionIsNew /\ R!AnswersAreRecorded
  BY <1>1 DEF PromotionIsNew, R!AnswersAreRecorded, R!InPromotion, R!RestoreInit
<1>. QED
  BY <1>2, <1>3, <1>4, InitTypes DEF RestoreIInv

LEMMA InitAInv ==
  ASSUME R!RestoreAssumption, R!RestoreInit
  PROVE  AInv
<1>1. RowsAreRead /\ RestoresAreAlone /\ R!PromotedAsInspected /\ R!Restoring = {}
  BY DEF RowsAreRead, RestoresAreAlone, R!PromotedAsInspected, R!Promoted, R!RestoreInit, R!Off,
         R!Restoring, R!InPromotion
<1>2. data = {} \/ \E d \in Dumps : data = d.data /\ Written \notin data
  BY DEF R!RestoreInit, R!RestoreAssumption
<1>3. CASE data = {}
  <2>1. {} \in SUBSET Snapshots /\ UNION {} = {} /\ data \ {Written} = {}
    BY <1>3
  <2>. QED
    BY <1>1, <2>1 DEF AInv, RowsAreWhole, R!RestoreIsOneSnapshot
<1>4. CASE data # {} /\ \E d \in Dumps : data = d.data /\ Written \notin data
  <2>1. data \ {Written} = data
    BY <1>4
  <2>. QED
    BY <1>1, <1>4, <2>1 DEF AInv, RowsAreWhole, R!RestoreIsOneSnapshot
<1>. QED
  BY <1>2, <1>3, <1>4
-----------------------------------------------------------------------------
(* A migrator's steps.                                                     *)

LEMMA TurnExtends ==
  ASSUME R!RestoreAssumption, NEW t \in ApplyRecords, Extends(t),
         t.next <= Len(Migrations), ledger \in Seq(STRING)
  PROVE  R!Turn(t) = R!Off \/ (R!Turn(t) \in ApplyRecords /\ Extends(R!Turn(t)))
<1>1. /\ t.next \in Nat \ {0} /\ t.ledger \in Seq(STRING)
      /\ t.config \in R!Runtimes
  BY DEF ApplyRecords
<1>2. Migrations \in Seq(STRING) /\ Migrations[t.next] \in STRING
  BY <1>1 DEF R!RestoreAssumption
<1>3. \A i \in 1..(t.next - 1) : t.ledger[i] = Migrations[i]
  BY DEF Extends
<1>4. CASE t.next > Len(t.ledger)
  <2>. DEFINE l == Append(t.ledger, Migrations[t.next])
  <2>1. R!Turn(t) = R!Applying(t.config, t.next + 1, l)
    BY <1>4 DEF R!Turn, Extends
  <2>2. l \in Seq(STRING) /\ Len(l) = Len(t.ledger) + 1
    BY <1>1, <1>2
  <2>3. Len(t.ledger) = t.next - 1
    BY <1>1, <1>4 DEF Extends
  <2>4. ASSUME NEW i \in 1..t.next
        PROVE  l[i] = Migrations[i]
    BY <1>1, <1>2, <1>3, <2>3
  <2>. HIDE DEF l
  <2>. QED
    BY <1>1, <1>2, <2>1, <2>2, <2>3, <2>4 DEF R!Applying, ApplyRecords, Extends
<1>5. CASE t.next <= Len(t.ledger) /\ t.ledger[t.next] = Migrations[t.next]
  <2>1. R!Turn(t) = R!Applying(t.config, t.next + 1, t.ledger)
    BY <1>1, <1>5 DEF R!Turn, Extends
  <2>2. ASSUME NEW i \in 1..t.next
        PROVE  t.ledger[i] = Migrations[i]
    BY <1>1, <1>3, <1>5
  <2>3. t.ledger = ledger \/ t.next = Len(t.ledger)
    BY <1>1, <1>5 DEF Extends
  <2>. QED
    BY <1>1, <1>2, <1>5, <2>1, <2>2, <2>3 DEF R!Applying, ApplyRecords, Extends
<1>. QED
  BY <1>1, <1>2, <1>4, <1>5 DEF R!Turn

(* What the transaction that applied a release commits is the release.     *)
LEMMA CommitsTheRelease ==
  ASSUME R!RestoreAssumption, NEW t \in ApplyRecords, Extends(t),
         t.next > Len(Migrations)
  PROVE  t.ledger = ledger \/ t.ledger = Migrations
<1>1. t.next \in Nat \ {0} /\ t.ledger \in Seq(STRING)
  BY DEF ApplyRecords
<1>2. t.next = Len(Migrations) + 1
  BY <1>1 DEF Extends, R!RestoreAssumption
<1>3. CASE Len(t.ledger) = t.next - 1
  <2>1. \A i \in 1..Len(Migrations) : t.ledger[i] = Migrations[i]
    BY <1>2 DEF Extends, R!RestoreAssumption
  <2>2. Len(t.ledger) = Len(Migrations) /\ t.ledger \in Seq(STRING)
    BY <1>1, <1>2, <1>3 DEF R!RestoreAssumption
  <2>. QED
    BY <2>1, <2>2, SeqEqual DEF R!RestoreAssumption
<1>. QED
  BY <1>3 DEF Extends

LEMMA MigrationsStillExtend ==
  ASSUME RestoreIInv, NEW m \in Migrators, NEW r \in MigratorRecords,
         mig' = [mig EXCEPT ![m] = r],
         \/ ledger' = ledger /\ (r.step = "apply" => Extends(r) /\ R!InMigration \subseteq {m})
         \/ r.step # "apply" /\ mig[m].step = "apply"
  PROVE  MigrationsExtend' /\ mig' \in [Migrators -> MigratorRecords]
<1>1. mig \in [Migrators -> MigratorRecords]
  BY DEF RestoreIInv, RestoreTypes
<1>2. /\ mig' \in [Migrators -> MigratorRecords]
      /\ mig'[m] = r /\ \A n \in Migrators : n # m => mig'[n] = mig[n]
  BY <1>1
<1>3. OneMigrates /\ \A n \in R!InMigration : Extends(mig[n])
  BY DEF RestoreIInv, MigrationsExtend
<1>4. \A n \in Migrators : n \in R!InMigration' <=> mig'[n].step = "apply"
  BY DEF R!InMigration
<1>5. \A n \in Migrators : n \in R!InMigration <=> mig[n].step = "apply"
  BY DEF R!InMigration
<1>6. R!InMigration' \subseteq Migrators
  BY DEF R!InMigration
<1>7. OneMigrates'
  BY <1>2, <1>3, <1>4, <1>5, <1>6 DEF OneMigrates
<1>8. ASSUME NEW n \in R!InMigration'
      PROVE  Extends(mig[n])'
  <2>1. CASE ledger' = ledger
    <3>1. Extends(mig'[n])
      BY <1>2, <1>3, <1>4, <1>5, <1>6, <1>8, <2>1
    <3>. QED
      BY <2>1, <3>1 DEF Extends
  <2>2. CASE ledger' # ledger
    <3>1. mig[m].step = "apply" /\ r.step # "apply" /\ n # m
      BY <1>2, <1>4, <1>6, <1>8, <2>2
    <3>2. n \in R!InMigration /\ m \in R!InMigration
      BY <1>2, <1>4, <1>5, <1>6, <1>8, <3>1
    <3>. QED
      BY <1>3, <3>1, <3>2 DEF OneMigrates
  <2>. QED
    BY <2>1, <2>2
<1>. QED
  BY <1>2, <1>7, <1>8 DEF MigrationsExtend

(* A migrator that does not touch the runtime configuration.               *)
LEMMA MigratorKeeps ==
  ASSUME R!RestoreAssumption, RestoreIInv, MigrationsExtend', mig' \in [Migrators -> MigratorRecords],
         ledger' \in Seq(STRING), crashes' \in 0..MaxCrashes,
         runtime' \in R!Runtimes \cup {NoRuntime},
         runtime' = runtime \/ runtime = NoRuntime, R!MigratorFrame
  PROVE  RestoreIInv' /\ R!ModeChangesByPromotion /\ R!SafeMeansReadOnly
<1>1. RestoreTypes'
  BY DEF RestoreIInv, RestoreTypes, R!MigratorFrame
<1>2. IsLive => IsLive'
  BY DEF IsLive
<1>3. AppsAreVerified'
  BY <1>2 DEF RestoreIInv, AppsAreVerified, R!MigratorFrame, IsLive
<1>4. R!InPromotion' = R!InPromotion
  BY DEF R!InPromotion, R!MigratorFrame
<1>5. PromotionIsNew'
  BY <1>4 DEF RestoreIInv, PromotionIsNew, R!MigratorFrame, IsSafe
<1>6. R!AnswersAreRecorded'
  BY DEF RestoreIInv, R!AnswersAreRecorded, PromotionIsNew, R!MigratorFrame
<1>. QED
  BY <1>1, <1>3, <1>5, <1>6 DEF RestoreIInv, R!ModeChangesByPromotion, R!SafeMeansReadOnly, R!MigratorFrame

LEMMA Applies ==
  ASSUME RestoreIInv, NEW m \in Migrators
  PROVE  /\ mig[m] \in MigratorRecords
         /\ mig[m].step = "apply" => mig[m] \in ApplyRecords /\ Extends(mig[m])
         /\ mig[m].step # "off" => mig[m].config \in R!Runtimes
<1>1. mig[m] \in MigratorRecords
  BY DEF RestoreIInv, RestoreTypes
<1>2. mig[m].step = "apply" => m \in R!InMigration
  BY DEF R!InMigration
<1>. QED
  BY <1>1, <1>2 DEF MigratorRecords, ApplyRecords, R!Off, RestoreIInv, MigrationsExtend

LEMMA MigratorSteps ==
  ASSUME R!RestoreAssumption, RestoreIInv, NEW m \in Migrators,
         R!StartMigrator(m) \/ R!MigratorStep(m) \/ R!InterruptMigrator(m)
  PROVE  RestoreIInv' /\ R!ModeChangesByPromotion /\ R!SafeMeansReadOnly /\ R!SchemaMovesAtOnce
<1>1. /\ ledger \in Seq(STRING) /\ crashes \in 0..MaxCrashes
      /\ MaxCrashes \in Nat /\ runtime \in R!Runtimes \cup {NoRuntime}
  BY DEF RestoreIInv, RestoreTypes, R!RestoreAssumption
<1>2. R!Off \in MigratorRecords /\ R!Off.step = "off"
  BY DEF R!Off, MigratorRecords
<1>3. CASE R!StartMigrator(m)
  <2>1. PICK c \in R!Runtimes : mig' = [mig EXCEPT ![m] = [step |-> "lock", config |-> c]]
    BY <1>3 DEF R!StartMigrator
  <2>2. [step |-> "lock", config |-> c] \in MigratorRecords
    BY DEF MigratorRecords
  <2>3. UNCHANGED <<ledger, runtime, crashes>> /\ R!MigratorFrame
    BY <1>3 DEF R!StartMigrator
  <2>4. MigrationsExtend' /\ mig' \in [Migrators -> MigratorRecords]
    BY <2>1, <2>2, <2>3, MigrationsStillExtend
  <2>. QED
    BY <1>1, <2>3, <2>4, MigratorKeeps DEF R!SchemaMovesAtOnce
<1>4. CASE R!TakeMigrationLock(m)
  <2>. DEFINE r == R!Applying(mig[m].config, 1, ledger)
  <2>1. mig' = [mig EXCEPT ![m] = r] /\ R!InMigration = {}
    BY <1>4 DEF R!TakeMigrationLock
  <2>2. r \in ApplyRecords /\ Extends(r)
    BY <1>1, <1>4, Applies
    DEF R!TakeMigrationLock, R!Applying, ApplyRecords, Extends, R!RestoreAssumption
  <2>3. UNCHANGED <<ledger, runtime, crashes>> /\ R!MigratorFrame
    BY <1>4 DEF R!TakeMigrationLock
  <2>4. MigrationsExtend' /\ mig' \in [Migrators -> MigratorRecords]
    <3>. HIDE DEF r
    <3>1. r \in MigratorRecords
      BY <2>2 DEF MigratorRecords
    <3>. QED
      BY <2>1, <2>2, <2>3, <3>1, MigrationsStillExtend
  <2>. QED
    BY <1>1, <2>3, <2>4, MigratorKeeps DEF R!SchemaMovesAtOnce
<1>5. CASE R!ApplyMigration(m)
  <2>1. /\ mig' = [mig EXCEPT ![m] = R!Turn(mig[m])]
        /\ mig[m].step = "apply" /\ mig[m].next <= Len(Migrations)
    BY <1>5 DEF R!ApplyMigration
  <2>2. R!Turn(mig[m]) = R!Off \/ (R!Turn(mig[m]) \in ApplyRecords /\ Extends(R!Turn(mig[m])))
    BY <1>1, <2>1, Applies, TurnExtends
  <2>3. UNCHANGED <<ledger, runtime, crashes>> /\ R!MigratorFrame
    BY <1>5 DEF R!ApplyMigration
  <2>4. R!InMigration \subseteq {m}
    BY <2>1 DEF RestoreIInv, MigrationsExtend, OneMigrates, R!InMigration
  <2>5. R!Turn(mig[m]) \in MigratorRecords /\ (R!Turn(mig[m]).step = "apply" => Extends(R!Turn(mig[m])))
    BY <1>2, <2>2 DEF MigratorRecords
  <2>6. MigrationsExtend' /\ mig' \in [Migrators -> MigratorRecords]
    BY <2>1, <2>3, <2>4, <2>5, MigrationsStillExtend
  <2>. QED
    BY <1>1, <2>3, <2>6, MigratorKeeps DEF R!SchemaMovesAtOnce
<1>6. CASE R!CommitMigrations(m)
  <2>. DEFINE r == [step |-> "select", config |-> mig[m].config]
  <2>1. /\ mig' = [mig EXCEPT ![m] = r]
        /\ mig[m].step = "apply" /\ mig[m].next > Len(Migrations)
        /\ ledger' = mig[m].ledger
        /\ UNCHANGED <<runtime, crashes>> /\ R!MigratorFrame
    BY <1>6 DEF R!CommitMigrations
  <2>2. r \in MigratorRecords /\ r.step # "apply"
    BY <2>1, Applies DEF MigratorRecords
  <2>3. /\ mig[m].ledger \in Seq(STRING)
        /\ mig[m].ledger = ledger \/ mig[m].ledger = Migrations
    BY <2>1, Applies, CommitsTheRelease DEF ApplyRecords, Extends
  <2>4. MigrationsExtend' /\ mig' \in [Migrators -> MigratorRecords]
    <3>. HIDE DEF r
    <3>. QED
      BY <2>1, <2>2, MigrationsStillExtend
  <2>. QED
    BY <1>1, <2>1, <2>3, <2>4, MigratorKeeps DEF R!SchemaMovesAtOnce
<1>7. CASE R!SelectRuntime(m)
  <2>1. PICK r \in MigratorRecords : mig' = [mig EXCEPT ![m] = r] /\ r.step # "apply"
    <3>1. mig[m].step = "select" =>
            /\ [mig[m] EXCEPT !.step = "insert"] \in MigratorRecords
            /\ [mig[m] EXCEPT !.step = "insert"].step = "insert"
      BY Applies DEF MigratorRecords, R!Off, ApplyRecords
    <3>. QED
      BY <1>2, <1>7, <3>1 DEF R!SelectRuntime
  <2>2. UNCHANGED <<ledger, runtime, crashes>> /\ R!MigratorFrame
    BY <1>7 DEF R!SelectRuntime
  <2>3. MigrationsExtend' /\ mig' \in [Migrators -> MigratorRecords]
    BY <2>1, <2>2, MigrationsStillExtend
  <2>. QED
    BY <1>1, <2>2, <2>3, MigratorKeeps DEF R!SchemaMovesAtOnce
<1>8. CASE R!InsertRuntime(m)
  <2>1. /\ mig' = [mig EXCEPT ![m] = R!Off]
        /\ UNCHANGED <<ledger, crashes>> /\ R!MigratorFrame
        /\ runtime' = (IF runtime = NoRuntime THEN mig[m].config ELSE runtime)
        /\ mig[m].config \in R!Runtimes
    BY <1>8, Applies DEF R!InsertRuntime
  <2>2. MigrationsExtend' /\ mig' \in [Migrators -> MigratorRecords]
    BY <1>2, <2>1, MigrationsStillExtend
  <2>. QED
    BY <1>1, <2>1, <2>2, MigratorKeeps DEF R!SchemaMovesAtOnce
<1>9. CASE R!InterruptMigrator(m)
  <2>1. /\ mig' = [mig EXCEPT ![m] = R!Off] /\ crashes < MaxCrashes /\ crashes' = crashes + 1
        /\ UNCHANGED <<ledger, runtime>> /\ R!MigratorFrame
    BY <1>9 DEF R!InterruptMigrator
  <2>2. MigrationsExtend' /\ mig' \in [Migrators -> MigratorRecords]
    BY <1>2, <2>1, MigrationsStillExtend
  <2>3. crashes' \in 0..MaxCrashes
    BY <1>1, <2>1
  <2>. QED
    BY <1>1, <2>1, <2>2, <2>3, MigratorKeeps DEF R!SchemaMovesAtOnce
<1>. QED
  BY <1>3, <1>4, <1>5, <1>6, <1>7, <1>8, <1>9 DEF R!MigratorStep

(* A migrator changes nothing a restore or a promotion relies on.          *)
LEMMA MigratorsKeepApart ==
  ASSUME AInv, runtime' = runtime \/ runtime = NoRuntime, R!MigratorFrame
  PROVE  AInv'
<1>1. IsSafe => IsSafe'
  BY DEF IsSafe
<1>2. /\ R!Restoring' = R!Restoring /\ R!Promoting' = R!Promoting
      /\ R!InPromotion' = R!InPromotion
  BY DEF R!MigratorFrame, R!Restoring, R!Promoting, R!InPromotion
<1>3. RowsAreRead' /\ RowsAreWhole'
  BY <1>2 DEF AInv, RowsAreRead, RowsAreWhole, R!MigratorFrame
<1>4. RestoresAreAlone => RestoresAreAlone'
  BY <1>1, <1>2 DEF RestoresAreAlone, R!MigratorFrame
<1>. QED
  BY <1>3, <1>4 DEF AInv, R!PromotedAsInspected, R!Promoted, R!RestoreIsOneSnapshot, R!MigratorFrame

LEMMA MigratorStepsApart ==
  ASSUME AInv, NEW m \in Migrators,
         R!StartMigrator(m) \/ R!MigratorStep(m) \/ R!InterruptMigrator(m)
  PROVE  AInv'
<1>1. R!MigratorFrame /\ (runtime' = runtime \/ runtime = NoRuntime)
  BY DEF R!StartMigrator, R!MigratorStep, R!InterruptMigrator, R!TakeMigrationLock, R!ApplyMigration,
         R!CommitMigrations, R!SelectRuntime, R!InsertRuntime
<1>. QED
  BY <1>1, MigratorsKeepApart

-----------------------------------------------------------------------------
(* An application's steps.                                                 *)

LEMMA AppSteps ==
  ASSUME R!RestoreAssumption, RestoreIInv, NEW p \in Apps,
         R!StartApp(p) \/ R!StopApp(p) \/ R!OperationsWrite(p) \/ R!IdentityWrite(p)
  PROVE  RestoreIInv' /\ R!ModeChangesByPromotion /\ R!SafeMeansReadOnly /\ R!SchemaMovesAtOnce
<1>1. R!AppFrame
  BY DEF R!StartApp, R!StopApp, R!OperationsWrite, R!IdentityWrite
<1>2. app \in [Apps -> AppRecords] /\ data \in SUBSET AllRows /\ IsFiniteSet(data)
  BY DEF RestoreIInv, RestoreTypes
<1>3. /\ app' \in [Apps -> AppRecords]
      /\ \A q \in Apps : app'[q].step = "up" =>
           runtime # NoRuntime /\ (app'[q].config.mode = "live" => IsLive)
  <2>1. CASE R!StartApp(p)
    <3>1. PICK c \in R!Runtimes :
            /\ runtime # NoRuntime /\ runtime = c
            /\ app' = [app EXCEPT ![p] = [step |-> "up", config |-> c]]
      BY <2>1 DEF R!StartApp, R!VerifyRuntimeConfiguration
    <3>2. [step |-> "up", config |-> c] \in AppRecords
      BY DEF AppRecords
    <3>3. \A q \in Apps : app'[q] = (IF q = p THEN [step |-> "up", config |-> c] ELSE app[q])
      BY <1>2, <3>1
    <3>. QED
      BY <1>2, <3>1, <3>2, <3>3 DEF RestoreIInv, AppsAreVerified, IsLive
  <2>2. CASE R!StopApp(p)
    <3>1. app' = [app EXCEPT ![p] = R!Off] /\ R!Off \in AppRecords /\ R!Off.step = "off"
      BY <2>2 DEF R!StopApp, R!Off, AppRecords
    <3>2. \A q \in Apps : app'[q] = (IF q = p THEN R!Off ELSE app[q])
      BY <1>2, <3>1
    <3>. QED
      BY <1>2, <3>1, <3>2 DEF RestoreIInv, AppsAreVerified
  <2>3. CASE R!OperationsWrite(p) \/ R!IdentityWrite(p)
    <3>1. app' = app
      BY <2>3 DEF R!OperationsWrite, R!IdentityWrite
    <3>. QED
      BY <1>2, <3>1 DEF RestoreIInv, AppsAreVerified
  <2>. QED
    BY <2>1, <2>2, <2>3
<1>4. data' = data \/ (data' = data \cup {Written} /\ IsLive)
  BY DEF R!StartApp, R!StopApp, R!OperationsWrite, R!IdentityWrite, RestoreIInv, AppsAreVerified
<1>5. data' \in SUBSET AllRows /\ IsFiniteSet(data')
  <2>1. IsFiniteSet(data \cup {Written}) /\ Written \in AllRows
    BY <1>2, RowsAreKnown, FS_AddElement
  <2>. QED
    BY <1>2, <1>4, <2>1
<1>6. IsLive' = IsLive
  BY <1>1 DEF R!AppFrame, IsLive
<1>7. RestoreTypes' /\ AppsAreVerified'
  BY <1>1, <1>3, <1>4, <1>5, <1>6 DEF RestoreIInv, RestoreTypes, AppsAreVerified, R!AppFrame
<1>8. R!InMigration' = R!InMigration /\ R!InPromotion' = R!InPromotion
  BY <1>1 DEF R!InMigration, R!InPromotion, R!AppFrame
<1>9. MigrationsExtend'
  BY <1>1, <1>8 DEF RestoreIInv, MigrationsExtend, OneMigrates, Extends, R!AppFrame
<1>10. PromotionIsNew' /\ R!AnswersAreRecorded'
  BY <1>1, <1>8
  DEF RestoreIInv, PromotionIsNew, R!AnswersAreRecorded, R!AppFrame, IsSafe
<1>11. R!ModeChangesByPromotion /\ R!SafeMeansReadOnly /\ R!SchemaMovesAtOnce
  BY <1>1, <1>4
  DEF R!ModeChangesByPromotion, R!SafeMeansReadOnly, R!SchemaMovesAtOnce, R!AppFrame, IsLive
<1>. QED
  BY <1>7, <1>9, <1>10, <1>11 DEF RestoreIInv

(* An application adds its rows to a live database alone.                  *)
LEMMA AppStepsApart ==
  ASSUME R!RestoreAssumption, RestoreIInv, AInv, NEW p \in Apps,
         R!StartApp(p) \/ R!StopApp(p) \/ R!OperationsWrite(p) \/ R!IdentityWrite(p)
  PROVE  AInv'
<1>1. R!AppFrame
  BY DEF R!StartApp, R!StopApp, R!OperationsWrite, R!IdentityWrite
<1>2. data' = data \/ (data' = data \cup {Written} /\ IsLive)
  BY DEF R!StartApp, R!StopApp, R!OperationsWrite, R!IdentityWrite, RestoreIInv, AppsAreVerified
<1>3. IsLive => ~IsSafe
  BY DEF IsLive, IsSafe
<1>4. /\ R!Restoring' = R!Restoring /\ R!Promoting' = R!Promoting
      /\ R!InPromotion' = R!InPromotion /\ IsSafe' = IsSafe
      /\ data \subseteq data' /\ data' \ {Written} = data \ {Written}
  BY <1>1, <1>2 DEF R!AppFrame, R!Restoring, R!Promoting, R!InPromotion, IsSafe
<1>5. RowsAreRead' /\ RowsAreWhole'
  BY <1>1, <1>4 DEF AInv, RowsAreRead, RowsAreWhole, R!AppFrame
<1>6. RestoresAreAlone => RestoresAreAlone'
  <2>1. IsSafe => data' = data
    BY <1>2, <1>3
  <2>2. R!InPromotion # {} => IsSafe
    BY DEF RestoreIInv, PromotionIsNew
  <2>. QED
    BY <1>1, <1>4, <2>1, <2>2 DEF RestoresAreAlone, R!AppFrame
<1>7. R!PromotedAsInspected' /\ R!RestoreIsOneSnapshot'
  BY <1>1, <1>4 DEF AInv, R!PromotedAsInspected, R!Promoted, R!RestoreIsOneSnapshot, R!AppFrame
<1>. QED
  BY <1>1, <1>5, <1>6, <1>7 DEF AInv, R!AppFrame

-----------------------------------------------------------------------------
(* A restoring adapter's steps.                                            *)

LEMMA RestorerSteps ==
  ASSUME R!RestoreAssumption, RestoreIInv, NEW r \in Restorers, R!BeginRestore(r) \/ R!CommitRestore(r)
  PROVE  RestoreIInv' /\ R!ModeChangesByPromotion /\ R!SafeMeansReadOnly /\ R!SchemaMovesAtOnce
<1>1. R!RestoreFrame
  BY DEF R!BeginRestore, R!CommitRestore
<1>2. /\ restorer \in [Restorers -> RestorerRecords]
      /\ data \in SUBSET AllRows /\ IsFiniteSet(data)
  BY DEF RestoreIInv, RestoreTypes
<1>3. restorer' \in [Restorers -> RestorerRecords]
  <2>1. R!Off \in RestorerRecords
    BY DEF RestorerRecords
  <2>2. \A s \in Snapshots : [step |-> "insert", rows |-> s] \in RestorerRecords
    BY DEF RestorerRecords
  <2>. QED
    BY <1>2, <2>1, <2>2 DEF R!BeginRestore, R!CommitRestore
<1>4. data' = data \/ \E s \in Snapshots : data' = data \cup s
  <2>1. restorer[r].step = "insert" => restorer[r].rows \in Snapshots
    BY <1>2 DEF RestorerRecords, R!Off
  <2>. QED
    BY <2>1 DEF R!BeginRestore, R!CommitRestore
<1>5. data' \in SUBSET AllRows /\ IsFiniteSet(data') /\ (Written \in data' => Written \in data)
  <2>1. ASSUME NEW s \in Snapshots
        PROVE  /\ data \cup s \in SUBSET AllRows /\ IsFiniteSet(data \cup s)
               /\ Written \notin s
    BY <1>2, RowsAreKnown, RestoreCounts, FS_Union DEF R!RestoreAssumption
  <2>. QED
    BY <1>2, <1>4, <2>1
<1>6. IsLive' = IsLive
  BY <1>1 DEF R!RestoreFrame, IsLive
<1>7. RestoreTypes' /\ AppsAreVerified'
  <2>1. overlapped' \in BOOLEAN
    BY DEF R!BeginRestore, R!CommitRestore, RestoreIInv, RestoreTypes
  <2>. QED
    BY <1>1, <1>3, <1>5, <1>6, <2>1 DEF RestoreIInv, RestoreTypes, AppsAreVerified, R!RestoreFrame
<1>8. R!InMigration' = R!InMigration /\ R!InPromotion' = R!InPromotion
  BY <1>1 DEF R!InMigration, R!InPromotion, R!RestoreFrame
<1>9. MigrationsExtend'
  BY <1>1, <1>8 DEF RestoreIInv, MigrationsExtend, OneMigrates, Extends, R!RestoreFrame
<1>10. PromotionIsNew' /\ R!AnswersAreRecorded'
  BY <1>1, <1>8
  DEF RestoreIInv, PromotionIsNew, R!AnswersAreRecorded, R!RestoreFrame, IsSafe
<1>11. R!ModeChangesByPromotion /\ R!SafeMeansReadOnly /\ R!SchemaMovesAtOnce
  BY <1>1, <1>5
  DEF R!ModeChangesByPromotion, R!SafeMeansReadOnly, R!SchemaMovesAtOnce, R!RestoreFrame
<1>. QED
  BY <1>7, <1>9, <1>10, <1>11 DEF RestoreIInv

(* A restore adds a snapshot; one that begins alone is still alone when it *)
(* ends, in the database that was empty.                                   *)
LEMMA RestorerStepsApart ==
  ASSUME R!RestoreAssumption, RestoreIInv, AInv, NEW r \in Restorers,
         R!BeginRestore(r) \/ R!CommitRestore(r)
  PROVE  AInv'
<1>1. R!RestoreFrame /\ restorer \in [Restorers -> RestorerRecords] /\ overlapped \in BOOLEAN
  BY DEF R!BeginRestore, R!CommitRestore, RestoreIInv, RestoreTypes
<1>2. R!Promoting' = R!Promoting /\ IsSafe' = IsSafe /\ R!InPromotion' = R!InPromotion
  BY <1>1 DEF R!Promoting, R!InPromotion, R!RestoreFrame, IsSafe
<1>3. CASE R!BeginRestore(r)
  <2>1. /\ IsSafe /\ data = {} /\ data' = data
        /\ ~overlapped' => ~overlapped /\ R!Restoring = {} /\ R!Promoting = {}
      BY <1>3 DEF R!BeginRestore, IsSafe
  <2>2. \A q \in Restorers : q # r => restorer'[q] = restorer[q]
    BY <1>1, <1>3 DEF R!BeginRestore
  <2>3. RowsAreRead'
    BY <1>1, <1>2, <2>1 DEF AInv, RowsAreRead, R!RestoreFrame
  <2>4. RowsAreWhole'
    BY <2>1 DEF AInv, RowsAreWhole
  <2>5. ~overlapped' => RestoresAreAlone'
    <3>1. R!Restoring = {} => R!Restoring' \subseteq {r}
      BY <2>2 DEF R!Restoring
    <3>2. R!Promoting = {} => R!InPromotion = {}
      BY DEF R!Promoting, R!InPromotion
    <3>. QED
      BY <1>2, <2>1, <3>1, <3>2 DEF RestoresAreAlone
  <2>6. R!PromotedAsInspected' /\ R!RestoreIsOneSnapshot'
    BY <1>1, <2>1 DEF AInv, R!PromotedAsInspected, R!Promoted, R!RestoreIsOneSnapshot, R!RestoreFrame
  <2>. QED
    BY <2>3, <2>4, <2>5, <2>6 DEF AInv
<1>4. CASE R!CommitRestore(r)
  <2>. DEFINE s == restorer[r].rows
  <2>1. restorer[r].step = "insert" /\ s \in Snapshots /\ Written \notin s
    BY <1>1, <1>4 DEF R!CommitRestore, RestorerRecords, R!Off, R!RestoreAssumption
  <2>2. r \in R!Restoring
    BY <2>1 DEF R!Restoring
  <2>3. data' = data \/ data' = data \cup s
    BY <1>4 DEF R!CommitRestore
  <2>4. overlapped' = overlapped
    BY <1>4 DEF R!CommitRestore
  <2>5. RowsAreRead'
    BY <1>1, <1>2, <2>3 DEF AInv, RowsAreRead, R!RestoreFrame
  <2>6. RowsAreWhole'
    <3>1. PICK ss \in SUBSET Snapshots : data \ {Written} = UNION ss
      BY <2>2 DEF AInv, RowsAreWhole
    <3>2. CASE data' = data
      BY <3>1, <3>2 DEF RowsAreWhole
    <3>3. CASE data' = data \cup s
      <4>1. data' \ {Written} = UNION (ss \cup {s})
        BY <2>1, <3>1, <3>3
      <4>2. ss \cup {s} \in SUBSET Snapshots
        BY <2>1
      <4>. QED
        BY <4>1, <4>2 DEF RowsAreWhole
    <3>. QED
      BY <2>3, <3>2, <3>3
  <2>7. ASSUME ~overlapped
        PROVE  RestoresAreAlone' /\ ~R!Promoted' /\ data' = s
    <3>1. R!Restoring = {r} /\ R!Promoting = {} /\ IsSafe /\ data = {}
      BY <2>2, <2>7 DEF AInv, RestoresAreAlone
    <3>2. R!Restoring' = {}
      <4>1. \A q \in Restorers : restorer'[q] = (IF q = r THEN R!Off ELSE restorer[q])
        BY <1>1, <1>4 DEF R!CommitRestore
      <4>. QED
        BY <3>1, <4>1 DEF R!Restoring, R!Off
    <3>3. R!InPromotion' = {}
      BY <1>2, <3>1 DEF R!Promoting, R!InPromotion
    <3>4. ~R!Promoted'
      BY <1>1, <3>1 DEF IsSafe, RestoreIInv, R!AnswersAreRecorded, R!Promoted, R!RestoreFrame
    <3>5. data' = s
      BY <1>4, <3>1 DEF R!CommitRestore
    <3>. QED
      BY <3>2, <3>3, <3>4, <3>5 DEF RestoresAreAlone
  <2>8. R!PromotedAsInspected'
    BY <1>1, <2>3, <2>4, <2>7 DEF AInv, R!PromotedAsInspected, R!Promoted, R!RestoreFrame
  <2>9. R!RestoreIsOneSnapshot'
    BY <2>1, <2>4, <2>7 DEF R!RestoreIsOneSnapshot
  <2>. QED
    BY <2>4, <2>5, <2>6, <2>7, <2>8, <2>9 DEF AInv
<1>. QED
  BY <1>3, <1>4

-----------------------------------------------------------------------------
(* An operator's steps.                                                    *)

LEMMA OperatorRecord ==
  ASSUME NEW r \in OperatorRecords
  PROVE  /\ r.step # "off" => r.id \in PromotionIds
         /\ r.step \notin {"off", "look"} => r.report \in RestoreReports
         /\ r.step \in {"look", "inspect", "commit"} => r.rows \in SUBSET AllRows
<1>1. CASE r = R!Off
  BY <1>1 DEF R!Off, OperatorRecords
<1>2. CASE r \in [step : {"look"}, id : PromotionIds, rows : SUBSET AllRows]
  BY <1>2
<1>3. CASE r \in [step : {"accepted", "answered"}, id : PromotionIds, report : RestoreReports]
  BY <1>3
<1>4. CASE r \in [step : {"inspect", "commit"}, id : PromotionIds, report : RestoreReports,
                  rows : SUBSET AllRows]
  BY <1>4
<1>. QED
  BY <1>1, <1>2, <1>3, <1>4 DEF OperatorRecords

LEMMA MakesRecords ==
  ASSUME NEW i \in PromotionIds, NEW d \in SUBSET AllRows
  PROVE  /\ R!Off \in OperatorRecords
         /\ [step |-> "look", id |-> i, rows |-> d] \in OperatorRecords
         /\ \A p \in RestoreReports :
              /\ \A t \in {"accepted", "answered"} :
                   [step |-> t, id |-> i, report |-> p] \in OperatorRecords
              /\ \A t \in {"inspect", "commit"} :
                   [step |-> t, id |-> i, report |-> p, rows |-> d] \in OperatorRecords
  BY DEF OperatorRecords, R!Off

LEMMA HoldsTheReport ==
  ASSUME RestoreIInv, NEW o \in Operators, op[o].step \notin {"off", "look"},
         NEW t \in {"accepted", "answered"}
  PROVE  R!Holding(o, t) \in OperatorRecords /\ R!Holding(o, t).step = t
<1>1. op[o] \in OperatorRecords
  BY DEF RestoreIInv, RestoreTypes
<1>2. op[o].id \in PromotionIds /\ op[o].report \in RestoreReports
  BY <1>1, OperatorRecord
<1>. QED
  BY <1>2, MakesRecords DEF R!Holding

LEMMA PromotionsStayNew ==
  ASSUME RestoreIInv, NEW o \in Operators, NEW r \in OperatorRecords, op' = [op EXCEPT ![o] = r],
         r.step \in {"inspect", "commit"} =>
           R!InPromotion \subseteq {o} /\ r.id \notin DOMAIN promotions /\ IsSafe,
         \/ UNCHANGED <<promotions, runtime>>
         \/ op[o].step = "commit" /\ r.step = "answered" /\ runtime' # NoRuntime,
         \A a \in answers' : ~a.duplicate => a \in answers \/ runtime' # NoRuntime
  PROVE  PromotionIsNew' /\ op' \in [Operators -> OperatorRecords]
<1>1. op \in [Operators -> OperatorRecords]
  BY DEF RestoreIInv, RestoreTypes
<1>2. /\ op' \in [Operators -> OperatorRecords]
      /\ \A n \in Operators : op'[n] = (IF n = o THEN r ELSE op[n])
  BY <1>1
<1>3. /\ \A n \in Operators : n \in R!InPromotion <=> op[n].step \in {"inspect", "commit"}
      /\ \A n \in Operators : n \in R!InPromotion' <=> op'[n].step \in {"inspect", "commit"}
      /\ R!InPromotion \subseteq Operators /\ R!InPromotion' \subseteq Operators
  BY DEF R!InPromotion
<1>4. \A n, k \in R!InPromotion' : n = k
  BY <1>2, <1>3 DEF RestoreIInv, PromotionIsNew
<1>5. \A n \in R!InPromotion' : op'[n].id \notin DOMAIN promotions' /\ IsSafe'
  <2>1. CASE UNCHANGED <<promotions, runtime>>
    BY <1>2, <1>3, <2>1 DEF RestoreIInv, PromotionIsNew, IsSafe
  <2>2. CASE op[o].step = "commit" /\ r.step = "answered"
    <3>1. R!InPromotion' = {}
      BY <1>2, <1>3, <2>2 DEF RestoreIInv, PromotionIsNew
    <3>. QED
      BY <1>3, <3>1
  <2>. QED
    BY <2>1, <2>2
<1>6. \A a \in answers' : ~a.duplicate => runtime' # NoRuntime
  BY DEF RestoreIInv, PromotionIsNew
<1>. QED
  BY <1>2, <1>4, <1>5, <1>6 DEF PromotionIsNew

(* An operator who changes neither the promotions nor the mode.            *)
LEMMA OperatorKeeps ==
  ASSUME R!RestoreAssumption, RestoreIInv, PromotionIsNew', op' \in [Operators -> OperatorRecords],
         R!AnswersAreRecorded', crashes' \in 0..MaxCrashes, overlapped' \in BOOLEAN,
         UNCHANGED <<runtime, promotions>>, R!OperatorFrame
  PROVE  RestoreIInv' /\ R!ModeChangesByPromotion /\ R!SafeMeansReadOnly /\ R!SchemaMovesAtOnce
<1>1. RestoreTypes'
  BY DEF RestoreIInv, RestoreTypes, R!OperatorFrame
<1>2. AppsAreVerified'
  BY DEF RestoreIInv, AppsAreVerified, R!OperatorFrame, IsLive
<1>3. R!InMigration' = R!InMigration
  BY DEF R!InMigration, R!OperatorFrame
<1>4. MigrationsExtend'
  BY <1>3 DEF RestoreIInv, MigrationsExtend, OneMigrates, Extends, R!OperatorFrame
<1>. QED
  BY <1>1, <1>2, <1>4
  DEF RestoreIInv, R!ModeChangesByPromotion, R!SafeMeansReadOnly, R!SchemaMovesAtOnce, R!OperatorFrame

LEMMA CommitPromotionKeeps ==
  ASSUME R!RestoreAssumption, RestoreIInv, NEW o \in Operators, R!CommitPromotion(o)
  PROVE  RestoreIInv' /\ R!ModeChangesByPromotion /\ R!SafeMeansReadOnly /\ R!SchemaMovesAtOnce
<1>. DEFINE a == op[o]
<1>. DEFINE answer == [id |-> a.id, report |-> a.report, duplicate |-> FALSE]
<1>1. /\ a.step = "commit"
      /\ promotions' = [i \in DOMAIN promotions \cup {a.id} |->
                          IF i = a.id THEN a.report ELSE promotions[i]]
      /\ runtime' = [runtime EXCEPT !.mode = "live"]
      /\ op' = [op EXCEPT ![o] = R!Holding(o, "answered")]
      /\ answers' = answers \cup {answer}
      /\ UNCHANGED <<overlapped, crashes>> /\ R!OperatorFrame
  BY DEF R!CommitPromotion
<1>2. a \in OperatorRecords /\ op \in [Operators -> OperatorRecords]
  BY DEF RestoreIInv, RestoreTypes
<1>3. a.id \in PromotionIds
  BY <1>1, <1>2, OperatorRecord
<1>4. a.id \notin DOMAIN promotions
  BY <1>1 DEF RestoreIInv, PromotionIsNew, R!InPromotion
<1>5. runtime \in R!Runtimes /\ IsSafe
  BY <1>1 DEF RestoreIInv, RestoreTypes, PromotionIsNew, R!InPromotion, IsSafe
<1>6. runtime' \in R!Runtimes /\ runtime'.mode = "live"
  BY <1>1, <1>5 DEF R!Runtimes, R!Modes
<1>7. IsLive' /\ ~IsLive
  BY <1>5, <1>6 DEF IsLive, IsSafe, R!RestoreAssumption
<1>8. DOMAIN promotions' = DOMAIN promotions \cup {a.id} /\ IsFiniteSet(DOMAIN promotions)
  BY <1>1 DEF RestoreIInv, RestoreTypes
<1>9. /\ IsFiniteSet(DOMAIN promotions')
      /\ Cardinality(DOMAIN promotions') = Cardinality(DOMAIN promotions) + 1
  BY <1>4, <1>8, FS_AddElement
<1>10. PromotionIsNew' /\ op' \in [Operators -> OperatorRecords]
  <2>1. R!Holding(o, "answered") \in OperatorRecords /\ R!Holding(o, "answered").step = "answered"
    BY <1>1, HoldsTheReport
  <2>2. runtime' # NoRuntime
    BY <1>7 DEF IsLive
  <2>. QED
    BY <1>1, <2>1, <2>2, PromotionsStayNew
<1>11. RestoreTypes'
  BY <1>1, <1>3, <1>6, <1>8, <1>9, <1>10 DEF RestoreIInv, RestoreTypes, R!OperatorFrame
<1>12. AppsAreVerified'
  <2>1. runtime' # NoRuntime
    BY <1>7 DEF IsLive
  <2>. QED
    BY <1>1, <1>7, <2>1 DEF AppsAreVerified, R!OperatorFrame
<1>13. R!InMigration' = R!InMigration
  BY <1>1 DEF R!InMigration, R!OperatorFrame
<1>14. MigrationsExtend'
  BY <1>1, <1>13 DEF RestoreIInv, MigrationsExtend, OneMigrates, Extends, R!OperatorFrame
<1>15. R!AnswersAreRecorded'
  <2>1. \A b \in answers : b.duplicate
    BY <1>7 DEF RestoreIInv, R!AnswersAreRecorded, PromotionIsNew, IsLive
  <2>2. \A b \in answers' : b.id \in DOMAIN promotions' /\ promotions'[b.id] = b.report
    <3>1. \A b \in answers : b.id \in DOMAIN promotions /\ promotions[b.id] = b.report
      BY DEF RestoreIInv, R!AnswersAreRecorded
    <3>2. \A i \in DOMAIN promotions : promotions'[i] = promotions[i]
      BY <1>1, <1>4
    <3>3. promotions'[a.id] = a.report
      BY <1>1
    <3>. QED
      BY <1>1, <1>8, <3>1, <3>2, <3>3
  <2>3. \A b \in answers' : ~b.duplicate => b = answer
    BY <1>1, <2>1
  <2>. QED
    BY <1>6, <2>2, <2>3 DEF R!AnswersAreRecorded
<1>16. R!ModeChangesByPromotion /\ R!SafeMeansReadOnly /\ R!SchemaMovesAtOnce
  BY <1>1, <1>9, RestoreCounts
  DEF R!ModeChangesByPromotion, R!SafeMeansReadOnly, R!SchemaMovesAtOnce, R!OperatorFrame
<1>. QED
  BY <1>10, <1>11, <1>12, <1>14, <1>15 , <1>16 DEF RestoreIInv

(* What an operator may hold next: where it is in a promotion, it is alone *)
(* there, and what it has read is there and coherent.                      *)
MayHold(o, r) ==
  /\ r.step \in {"inspect", "commit"} =>
       /\ R!InPromotion \subseteq {o} /\ r.id \notin DOMAIN promotions /\ IsSafe
       /\ r.rows \subseteq data
  /\ r.step = "inspect" => r.rows = data
  /\ r.step = "commit" => r.rows \cap BadRows = {} /\ op[o].step = "inspect" /\ op[o].rows \subseteq r.rows

LEMMA SeenRows ==
  ASSUME R!RestoreAssumption, RestoreIInv, NEW o \in Operators, NEW d \in R!Seen(o)
  PROVE  d \in SUBSET AllRows /\ d \subseteq data /\ op[o].rows \subseteq d /\ R!Report(d) \in RestoreReports
<1>1. d \subseteq data /\ data \in SUBSET AllRows /\ IsFiniteSet(data) /\ op[o].rows \subseteq d
  BY DEF R!Seen, RestoreIInv, RestoreTypes
<1>2. IsFiniteSet(d)
  BY <1>1, FS_Subset
<1>. QED
  BY <1>1, <1>2, SomeRows DEF RestoreIInv, RestoreTypes

(* The operators' steps other than the commit of a promotion.              *)
OperatorTurn(o) ==
  \/ R!Inspect(o) \/ R!AcceptReport(o) \/ R!BeginPromotion(o) \/ R!InspectAgain(o)
  \/ R!Leave(o) \/ R!Resend(o) \/ R!InterruptOperator(o)

LEMMA OperatorHolds ==
  ASSUME R!RestoreAssumption, RestoreIInv, NEW o \in Operators, OperatorTurn(o)
  PROVE  \E r \in OperatorRecords : op' = [op EXCEPT ![o] = r] /\ MayHold(o, r)
<1>1. /\ op[o] \in OperatorRecords /\ ledger \in Seq(STRING)
      /\ data \in SUBSET AllRows /\ IsFiniteSet(data)
  BY DEF RestoreIInv, RestoreTypes
<1>2. R!Off \in OperatorRecords /\ MayHold(o, R!Off)
  BY DEF R!Off, OperatorRecords, MayHold
<1>3. ASSUME op[o].step \notin {"off", "look"}, NEW t \in {"accepted", "answered"}
      PROVE  R!Holding(o, t) \in OperatorRecords /\ MayHold(o, R!Holding(o, t))
  BY <1>3, HoldsTheReport DEF MayHold
<1>4. CASE R!Inspect(o)
  <2>1. PICK i \in PromotionIds :
          op' = [op EXCEPT ![o] = [step |-> "look", id |-> i, rows |-> data]]
    BY <1>4 DEF R!Inspect
  <2>. QED
    BY <1>1, <2>1, MakesRecords DEF MayHold
<1>5. CASE R!AcceptReport(o)
  <2>1. PICK d \in R!Seen(o) :
          op' = [op EXCEPT ![o] = IF R!Passes(d)
                                  THEN [step |-> "accepted", id |-> op[o].id, report |-> R!Report(d)]
                                  ELSE R!Off]
    BY <1>5 DEF R!AcceptReport
  <2>2. op[o].id \in PromotionIds
    BY <1>1, <1>5, OperatorRecord DEF R!AcceptReport
  <2>3. [step |-> "accepted", id |-> op[o].id, report |-> R!Report(d)] \in OperatorRecords
    BY <2>2, SeenRows, MakesRecords
  <2>. QED
    BY <1>2, <2>1, <2>3 DEF MayHold
<1>6. CASE R!BeginPromotion(o)
  <2>1. op[o].step = "accepted" /\ R!InPromotion = {}
    BY <1>6 DEF R!BeginPromotion
  <2>2. CASE op[o].id \notin DOMAIN promotions /\ R!MayBeInspected
    <3>. DEFINE r == [step |-> "inspect", id |-> op[o].id, report |-> op[o].report, rows |-> data]
    <3>1. op' = [op EXCEPT ![o] = r]
      BY <1>6, <2>2 DEF R!BeginPromotion
    <3>2. r \in OperatorRecords
      BY <1>1, <2>1, OperatorRecord, MakesRecords
    <3>3. MayHold(o, r)
      BY <2>1, <2>2 DEF MayHold, R!MayBeInspected, IsSafe
    <3>. QED
      BY <3>1, <3>2, <3>3
  <2>3. CASE ~(op[o].id \notin DOMAIN promotions /\ R!MayBeInspected)
    <3>1. op' = [op EXCEPT ![o] = R!Holding(o, "answered")]
      BY <1>6, <2>3 DEF R!BeginPromotion
    <3>. QED
      BY <1>3, <2>1, <3>1
  <2>. QED
    BY <2>2, <2>3
<1>7. CASE R!InspectAgain(o)
  <2>1. op[o].step = "inspect" /\ o \in R!InPromotion
    BY <1>7 DEF R!InspectAgain, R!InPromotion
  <2>2. R!InPromotion \subseteq {o} /\ op[o].id \notin DOMAIN promotions /\ IsSafe
    BY <2>1 DEF RestoreIInv, PromotionIsNew
  <2>3. PICK d \in R!Seen(o) :
          op' = [op EXCEPT ![o] = IF R!Passes(d) /\ R!Report(d) = op[o].report
                                  THEN [step |-> "commit", id |-> op[o].id,
                                        report |-> op[o].report, rows |-> d]
                                  ELSE R!Holding(o, "answered")]
    BY <1>7 DEF R!InspectAgain
  <2>. DEFINE r == [step |-> "commit", id |-> op[o].id, report |-> op[o].report, rows |-> d]
  <2>4. r \in OperatorRecords
    BY <1>1, <2>1, SeenRows, OperatorRecord, MakesRecords
  <2>5. R!Passes(d) => MayHold(o, r)
    BY <2>1, <2>2, SeenRows DEF MayHold, R!Passes
  <2>6. CASE R!Passes(d) /\ R!Report(d) = op[o].report
    <3>1. op' = [op EXCEPT ![o] = r]
      BY <2>3, <2>6
    <3>. QED
      BY <2>4, <2>5, <2>6, <3>1
  <2>7. CASE ~(R!Passes(d) /\ R!Report(d) = op[o].report)
    BY <1>3, <2>1, <2>3, <2>7
  <2>. QED
    BY <2>6, <2>7
<1>8. CASE R!Leave(o)
  BY <1>2, <1>8 DEF R!Leave
<1>9. CASE R!Resend(o) \/ R!InterruptOperator(o)
  <2>1. op[o].step \notin {"off", "look"} /\ op' = [op EXCEPT ![o] = R!Holding(o, "accepted")]
    BY <1>9 DEF R!Resend, R!InterruptOperator
  <2>. QED
    BY <1>3, <2>1
<1>. QED
  BY <1>4, <1>5, <1>6, <1>7, <1>8, <1>9 DEF OperatorTurn

LEMMA OperatorAnswers ==
  ASSUME R!RestoreAssumption, RestoreIInv, NEW o \in Operators, OperatorTurn(o)
  PROVE  /\ UNCHANGED <<runtime, promotions, inspected>> /\ R!OperatorFrame
         /\ R!AnswersAreRecorded' /\ \A a \in answers' : ~a.duplicate => a \in answers
         /\ crashes' \in 0..MaxCrashes /\ overlapped' \in BOOLEAN
<1>1. /\ UNCHANGED <<runtime, promotions, inspected>> /\ R!OperatorFrame
      /\ overlapped' \in BOOLEAN
  BY DEF RestoreIInv, RestoreTypes, OperatorTurn, R!Inspect, R!AcceptReport, R!BeginPromotion,
         R!InspectAgain, R!Leave, R!Resend, R!InterruptOperator
<1>2. R!AnswersAreRecorded /\ crashes \in 0..MaxCrashes /\ MaxCrashes \in Nat
  BY DEF RestoreIInv, RestoreTypes, R!RestoreAssumption
<1>3. CASE R!BeginPromotion(o)
  <2>1. \/ answers' = answers
        \/ /\ op[o].id \in DOMAIN promotions /\ promotions[op[o].id] = op[o].report
           /\ answers' = answers \cup {[id |-> op[o].id, report |-> op[o].report,
                                        duplicate |-> TRUE]}
    BY <1>3 DEF R!BeginPromotion
  <2>2. crashes' = crashes
    BY <1>3 DEF R!BeginPromotion
  <2>3. R!AnswersAreRecorded' /\ \A a \in answers' : ~a.duplicate => a \in answers
    BY <1>1, <1>2, <2>1 DEF R!AnswersAreRecorded
  <2>. QED
    BY <1>1, <1>2, <2>2, <2>3
<1>4. CASE ~R!BeginPromotion(o)
  <2>1. answers' = answers
    BY <1>4 DEF OperatorTurn, R!Inspect, R!AcceptReport, R!InspectAgain, R!Leave, R!Resend,
                R!InterruptOperator
  <2>2. crashes' = crashes \/ (crashes < MaxCrashes /\ crashes' = crashes + 1)
    BY <1>4 DEF OperatorTurn, R!Inspect, R!AcceptReport, R!InspectAgain, R!Leave, R!Resend,
                R!InterruptOperator
  <2>3. crashes' \in 0..MaxCrashes
    BY <1>2, <2>2
  <2>. QED
    BY <1>1, <1>2, <2>1, <2>3 DEF R!AnswersAreRecorded
<1>. QED
  BY <1>3, <1>4

LEMMA OperatorSteps ==
  ASSUME R!RestoreAssumption, RestoreIInv, NEW o \in Operators,
         R!Inspect(o) \/ R!OperatorStep(o) \/ R!Resend(o) \/ R!InterruptOperator(o)
  PROVE  RestoreIInv' /\ R!ModeChangesByPromotion /\ R!SafeMeansReadOnly /\ R!SchemaMovesAtOnce
<1>1. CASE OperatorTurn(o)
  <2>1. PICK r \in OperatorRecords : op' = [op EXCEPT ![o] = r] /\ MayHold(o, r)
    BY <1>1, OperatorHolds
  <2>2. PromotionIsNew' /\ op' \in [Operators -> OperatorRecords]
    BY <1>1, <2>1, OperatorAnswers, PromotionsStayNew DEF MayHold
  <2>. QED
    BY <1>1, <2>2, OperatorAnswers, OperatorKeeps
<1>. QED
  BY <1>1, CommitPromotionKeeps DEF OperatorTurn, R!OperatorStep

(* A promotion commits rows that are there, and all of them unless a       *)
(* restore ran beside it.                                                  *)
LEMMA CommitPromotionApart ==
  ASSUME R!RestoreAssumption, RestoreIInv, AInv, NEW o \in Operators, R!CommitPromotion(o)
  PROVE  AInv'
<1>1. /\ op[o].step = "commit" /\ o \in R!InPromotion
      /\ op' = [op EXCEPT ![o] = R!Holding(o, "answered")]
      /\ inspected' = op[o].rows /\ UNCHANGED <<data, restorer, overlapped>>
      /\ op \in [Operators -> OperatorRecords]
  BY DEF R!CommitPromotion, R!OperatorFrame, R!InPromotion, RestoreIInv, RestoreTypes
<1>2. R!Restoring' = R!Restoring /\ (~overlapped => R!Restoring = {})
  BY <1>1 DEF R!Restoring, R!Promoting, AInv, RestoresAreAlone
<1>3. R!InPromotion' = {}
  <2>1. R!Holding(o, "answered").step = "answered"
    BY DEF R!Holding
  <2>2. R!InPromotion = {o}
    BY <1>1 DEF RestoreIInv, PromotionIsNew
  <2>. QED
    BY <1>1, <2>1, <2>2 DEF R!InPromotion
<1>4. Written \notin data
  BY <1>1 DEF RestoreIInv, PromotionIsNew, AppsAreVerified, IsLive, IsSafe, R!RestoreAssumption
<1>5. op[o].rows \subseteq data /\ op[o].rows \cap BadRows = {} /\ (~overlapped => op[o].rows = data)
  BY <1>1 DEF AInv, RowsAreRead, RestoresAreAlone
<1>6. R!PromotedAsInspected'
  BY <1>1, <1>4, <1>5 DEF R!PromotedAsInspected
<1>7. RowsAreRead' /\ RowsAreWhole'
  <2>1. \A n \in Operators : op'[n].step # "commit"
    BY <1>3 DEF R!InPromotion
  <2>. QED
    BY <1>1, <1>2, <1>3, <2>1 DEF AInv, RowsAreRead, RowsAreWhole
<1>8. ~overlapped => RestoresAreAlone'
  BY <1>2, <1>3 DEF RestoresAreAlone
<1>9. R!RestoreIsOneSnapshot'
  BY <1>1 DEF AInv, R!RestoreIsOneSnapshot
<1>. QED
  BY <1>1, <1>6, <1>7, <1>8, <1>9 DEF AInv

LEMMA OperatorStepsApart ==
  ASSUME R!RestoreAssumption, RestoreIInv, AInv, NEW o \in Operators,
         R!Inspect(o) \/ R!OperatorStep(o) \/ R!Resend(o) \/ R!InterruptOperator(o)
  PROVE  AInv'
<1>1. CASE OperatorTurn(o)
  <2>1. PICK r \in OperatorRecords : op' = [op EXCEPT ![o] = r] /\ MayHold(o, r)
    BY <1>1, OperatorHolds
  <2>2. /\ UNCHANGED <<data, restorer, runtime, inspected>>
        /\ \A a \in answers' : ~a.duplicate => a \in answers
        /\ op \in [Operators -> OperatorRecords] /\ overlapped' \in BOOLEAN
    BY <1>1, OperatorAnswers DEF R!OperatorFrame, RestoreIInv, RestoreTypes
  <2>3. \A n \in Operators : op'[n] = (IF n = o THEN r ELSE op[n])
    BY <2>1, <2>2
  <2>4. R!Restoring' = R!Restoring
    BY <2>2 DEF R!Restoring
  <2>5. ~overlapped' => ~overlapped /\ R!Restoring = {}
    <3>1. CASE R!Inspect(o)
      BY <3>1 DEF R!Inspect
    <3>2. CASE ~R!Inspect(o)
      <4>1. op[o].step # "off" /\ overlapped' = overlapped
        BY <1>1, <3>2 DEF OperatorTurn, R!AcceptReport, R!BeginPromotion, R!InspectAgain, R!Leave,
                          R!Resend, R!InterruptOperator
      <4>. QED
        BY <4>1 DEF AInv, RestoresAreAlone, R!Promoting
    <3>. QED
      BY <3>1, <3>2
  <2>6. ASSUME NEW n \in R!InPromotion'
        PROVE  op'[n].rows \subseteq data /\ (~overlapped' => op'[n].rows = data)
    <3>1. CASE n = o
      <4>1. op'[n] = r /\ r.step \in {"inspect", "commit"}
        BY <2>3, <2>6, <3>1 DEF R!InPromotion
      <4>2. r.rows \subseteq data
        BY <2>1, <4>1 DEF MayHold
      <4>3. CASE r.step = "inspect"
        BY <2>1, <4>1, <4>3 DEF MayHold
      <4>4. CASE r.step = "commit"
        <5>1. o \in R!InPromotion /\ op[o].rows \subseteq r.rows
          BY <2>1, <4>4 DEF MayHold, R!InPromotion
        <5>2. ~overlapped' => op[o].rows = data
          BY <2>5, <5>1 DEF AInv, RestoresAreAlone
        <5>. QED
          BY <4>1, <4>2, <5>1, <5>2
      <4>. QED
        BY <4>1, <4>3, <4>4
    <3>2. CASE n # o
      BY <2>3, <2>5, <2>6, <3>2 DEF R!InPromotion, AInv, RowsAreRead, RestoresAreAlone
    <3>. QED
      BY <3>1, <3>2
  <2>7. RowsAreRead'
    <3>1. \A n \in Operators : op'[n].step = "commit" => op'[n].rows \cap BadRows = {}
      BY <2>1, <2>3 DEF MayHold, AInv, RowsAreRead
    <3>. QED
      BY <2>2, <2>6, <3>1 DEF RowsAreRead
  <2>8. RowsAreWhole' /\ R!RestoreIsOneSnapshot'
    BY <2>2, <2>4, <2>5 DEF AInv, RowsAreWhole, R!RestoreIsOneSnapshot
  <2>9. ~overlapped' => RestoresAreAlone'
    BY <2>2, <2>4, <2>5, <2>6 DEF RestoresAreAlone
  <2>10. R!PromotedAsInspected'
    BY <2>2, <2>5 DEF AInv, R!PromotedAsInspected, R!Promoted
  <2>. QED
    BY <2>7, <2>8, <2>9, <2>10 DEF AInv
<1>. QED
  BY <1>1, CommitPromotionApart DEF OperatorTurn, R!OperatorStep

-----------------------------------------------------------------------------
(* The theorems.                                                           *)

LEMMA NextKeeps ==
  ASSUME R!RestoreAssumption, RestoreIInv, R!RestoreNext
  PROVE  RestoreIInv' /\ R!ModeChangesByPromotion /\ R!SafeMeansReadOnly /\ R!SchemaMovesAtOnce
  BY MigratorSteps, AppSteps, RestorerSteps, OperatorSteps DEF R!RestoreNext

LEMMA StutterKeeps ==
  ASSUME UNCHANGED R!restoreVars
  PROVE  /\ RestoreIInv => RestoreIInv'
         /\ AInv => AInv'
         /\ R!ModeChangesByPromotion /\ R!SafeMeansReadOnly /\ R!SchemaMovesAtOnce
<1>1. R!InMigration' = R!InMigration /\ R!InPromotion' = R!InPromotion
  BY DEF R!restoreVars, R!InMigration, R!InPromotion
<1>2. R!Restoring' = R!Restoring /\ R!Promoting' = R!Promoting
  BY DEF R!restoreVars, R!Restoring, R!Promoting
<1>3. RestoreIInv => RestoreIInv'
  BY <1>1 DEF R!restoreVars, RestoreIInv, RestoreTypes, MigrationsExtend, OneMigrates, Extends,
              AppsAreVerified, IsLive, IsSafe, PromotionIsNew, R!AnswersAreRecorded
<1>4. AInv => AInv'
  BY <1>1, <1>2
  DEF R!restoreVars, AInv, RowsAreRead, RowsAreWhole, RestoresAreAlone, IsSafe,
      R!PromotedAsInspected, R!Promoted, R!RestoreIsOneSnapshot
<1>. QED
  BY <1>3, <1>4 DEF R!restoreVars, R!ModeChangesByPromotion, R!SafeMeansReadOnly, R!SchemaMovesAtOnce

LEMMA NextKeepsApart ==
  ASSUME R!RestoreAssumption, RestoreIInv, AInv, R!RestoreNext
  PROVE  AInv'
  BY MigratorStepsApart, AppStepsApart, RestorerStepsApart, OperatorStepsApart DEF R!RestoreNext

LEMMA Invariance == ASSUME R!RestoreAssumption PROVE R!RestoreSpec => []RestoreIInv
<1>1. R!RestoreInit => RestoreIInv
  BY InitIInv
<1>2. RestoreIInv /\ [R!RestoreNext]_(R!restoreVars) => RestoreIInv'
  BY NextKeeps, StutterKeeps
<1>. QED
  BY <1>1, <1>2, PTL DEF R!RestoreSpec

LEMMA InvariantGivesTypeOK ==
  ASSUME RestoreIInv
  PROVE  R!RestoreTypeOK
<1>1. Cardinality(R!InMigration) <= 1 /\ Cardinality(R!InPromotion) <= 1
  BY AtMostOne DEF RestoreIInv, MigrationsExtend, OneMigrates, PromotionIsNew
<1>2. /\ \A m \in Migrators : mig[m].step \in {"off", "lock", "apply", "select", "insert"}
      /\ \A p \in Apps : app[p].step \in {"off", "up"}
      /\ \A r \in Restorers : restorer[r].step \in {"off", "insert"}
      /\ \A o \in Operators : op[o].step \in {"off", "look", "accepted", "inspect", "commit", "answered"}
  <2>1. \A m \in MigratorRecords : m.step \in {"off", "lock", "apply", "select", "insert"}
    BY DEF MigratorRecords, ApplyRecords, R!Off
  <2>2. \A p \in AppRecords : p.step \in {"off", "up"}
    BY DEF AppRecords, R!Off
  <2>3. \A r \in RestorerRecords : r.step \in {"off", "insert"}
    BY DEF RestorerRecords, R!Off
  <2>4. \A o \in OperatorRecords :
          o.step \in {"off", "look", "accepted", "inspect", "commit", "answered"}
    BY DEF OperatorRecords, R!Off
  <2>. QED
    BY <2>1, <2>2, <2>3, <2>4 DEF RestoreIInv, RestoreTypes
<1>. QED
  BY <1>1, <1>2, RestoreCounts DEF RestoreIInv, RestoreTypes, R!RestoreTypeOK

(* Every table and process holds what it can hold, and behind each of the  *)
(* two advisory locks (applyMigrationsTransaction, promotePostgresRestore) *)
(* there is at most one transaction, whatever the processes and dumps.     *)
THEOREM RestoreTypesAreKept ==
  ASSUME R!RestoreAssumption PROVE R!RestoreSpec => []R!RestoreTypeOK
<1>1. RestoreIInv => R!RestoreTypeOK
  BY InvariantGivesTypeOK
<1>. QED
  BY <1>1, Invariance, PTL

(* A transaction of applyMigrationsTransaction leaves the whole release or *)
(* nothing; configureRuntime and promotePostgresRestore alone write the    *)
(* runtime configuration, the second with a promotion on record; and a     *)
(* database that is restore-safe is not written by any application.        *)
THEOREM DatabasesChangeAtOnce ==
  ASSUME R!RestoreAssumption
  PROVE  R!RestoreSpec =>
           [][R!SchemaMovesAtOnce /\ R!ModeChangesByPromotion /\ R!SafeMeansReadOnly]_(R!restoreVars)
<1>1. RestoreIInv /\ [R!RestoreNext]_(R!restoreVars) =>
        [R!SchemaMovesAtOnce /\ R!ModeChangesByPromotion /\ R!SafeMeansReadOnly]_(R!restoreVars)
  BY NextKeeps
<1>. QED
  BY <1>1, Invariance, PTL DEF R!RestoreSpec

(* What promotePostgresRestore answered is on record with its report, no   *)
(* database is promoted twice, and one that was is live: for any number of *)
(* operators, interrupted and repeated anywhere, and beside any restore.   *)
THEOREM PromotionAnswersAreRecorded ==
  ASSUME R!RestoreAssumption PROVE R!RestoreSpec => []R!AnswersAreRecorded
<1>1. RestoreIInv => R!AnswersAreRecorded
  BY DEF RestoreIInv
<1>. QED
  BY <1>1, Invariance, PTL

(* Whatever restores, inspections and promotions run side by side, a       *)
(* database holds whole snapshots or one dump, beside what applications    *)
(* wrote (restoreSnapshot), and one that was promoted holds every row its  *)
(* promotion inspected, and found those coherent (promotePostgresRestore); *)
(* and as long as no restore has run beside another or an operator, it     *)
(* holds one snapshot, and once promoted nothing that was not inspected.   *)
THEOREM RestoredRowsAreAccountedFor ==
  ASSUME R!RestoreAssumption
  PROVE  R!RestoreSpec => [](R!PromotedAsInspected /\ R!RestoresAreWhole /\ R!RestoreIsOneSnapshot)
<1>1. R!RestoreInit => AInv
  BY InitAInv
<1>2. RestoreIInv /\ AInv /\ [R!RestoreNext]_(R!restoreVars) => AInv'
  BY NextKeepsApart, StutterKeeps
<1>3. AInv => R!PromotedAsInspected /\ R!RestoresAreWhole /\ R!RestoreIsOneSnapshot
  BY DEF AInv, RowsAreWhole, R!RestoresAreWhole
<1>. QED
  BY <1>1, <1>2, <1>3, Invariance, PTL DEF R!RestoreSpec

=============================================================================
