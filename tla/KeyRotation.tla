------------------------------ MODULE KeyRotation ------------------------------
(***************************************************************************)
(* The encrypted metadata and the rotation of the keys it is wrapped under *)
(* (keyCustody.ts, postgresKeyRotation.ts, and the metadata half of        *)
(* postgresOperations.ts).  A record carries its own data key, wrapped     *)
(* under a key of a provider; a rotation unwraps and rewraps the data keys *)
(* of all the records that are not under its target, in one READ COMMITTED *)
(* transaction that leaves a report under the rotation's id.               *)
(*                                                                         *)
(* The table holds what is committed.  A transaction that needs a row      *)
(* another one has written or locked waits for it to end.  A ring is the   *)
(* configuration of a key provider: its id, its current version and the    *)
(* versions it holds.                                                      *)
(***************************************************************************)
EXTENDS Integers, Sequences, FiniteSets, Functions, SequencesExt

CONSTANTS
  Records,                    \* record ids, numbers: FOR UPDATE takes them in order
  Processes, Rotators,        \* that write and read metadata; that rotate keys
  Ids,                        \* rotation ids
  Rings,                      \* a sequence of the rings the processes are given
  Sources, Targets,           \* rings and keys the rotators are given
  FollowsProcedure,           \* whether rings are handed out in order, see MayChangeRing
  Retention,                  \* {FALSE}, or BOOLEAN when records may expire
  MaxWrites, MaxRequests      \* bounds

RotationAssumption ==
  /\ Records \subseteq Nat /\ IsFiniteSet(Records)
  /\ FollowsProcedure \in BOOLEAN /\ Retention \subseteq BOOLEAN
  /\ Rings \in Seq(Range(Rings)) /\ Rings # <<>>
  /\ \A i \in DOMAIN Rings : Rings[i].current \in Rings[i].held
  /\ {"free", "purger"} \cap Rotators = {}   \* no rotator is called so
  /\ {MaxWrites, MaxRequests} \subseteq Nat

VARIABLES
  table,                      \* encrypted_metadata
  reports,                    \* metadata_key_rotations
  rowLock, idLock,            \* transaction that holds a row, an advisory lock
  process,                    \* ring of a process, and the record it has encrypted
  rotation,                   \* the request of a rotator, and its transaction
  purge,                      \* the transaction that deletes what has expired
  latest,                     \* ghost: content of the last committed write
  writes, requests,           \* counts, for the bounds
  retirable                   \* ghost: a rotation that began after every process wrote
                              \* under the last ring has committed
locks == <<rowLock, idLock>>
ghosts == <<latest, retirable>>
vars == <<table, reports, locks, process, rotation, purge, ghosts, writes, requests>>

None == [none |-> TRUE]
Free == "free"
Purger == "purger"
Key(ring) == [provider |-> ring.provider, version |-> ring.current]
KeysOf(ring) == {[provider |-> ring.provider, version |-> v] : v \in ring.held}
LastKey == Key(Rings[Len(Rings)])

\* What the procedure is followed with: records are moved to the last key, and
\* once rings write under it they all do.
ProcedureAssumption ==
  /\ FollowsProcedure /\ Targets \subseteq {LastKey}
  /\ \A i, j \in DOMAIN Rings : i <= j /\ Key(Rings[i]) = LastKey => Key(Rings[j]) = LastKey

Settled(result) == [pc |-> "idle", result |-> result]
Requested(id, source, target) ==
  [pc |-> "requested", result |-> None, id |-> id, source |-> source, target |-> target,
   ids |-> {}, rows |-> <<>>, moved |-> <<>>, clean |-> FALSE]

Init ==
  /\ table = [r \in Records |-> None] /\ reports = [i \in Ids |-> None]
  /\ rowLock = [r \in Records |-> Free] /\ idLock = [i \in Ids |-> Free]
  /\ process = [p \in Processes |-> [ring |-> 1, pending |-> None]]
  /\ rotation = [t \in Rotators |-> Settled(None)] /\ purge = None
  /\ latest = [r \in Records |-> 0] /\ retirable = FALSE
  /\ writes = 0 /\ requests = 0
-----------------------------------------------------------------------------
(* The envelope: what a key may do with it.                                *)

Envelope(k, under, content, expires) ==
  [key |-> k, under |-> under, content |-> content, expires |-> expires]

\* An envelope of the direct cipher has no provider.
SameProvider(ring, e) == e.key.provider = ring.provider /\ ring.provider # "direct"
Unwraps(ring, e) == e.key.version \in ring.held /\ e.under = e.key

\* Who can decrypt: the direct cipher holds the data keys themselves.
Decrypts(ring, e) == e.key \in KeysOf(ring) /\ e.under = e.key

Rewrapped(e, target) == Envelope(target, target, e.content, e.expires)
-----------------------------------------------------------------------------
(* Writers.                                                                *)

Encrypt(p, r, expires) ==
  /\ process[p].pending = None /\ writes < MaxWrites
  /\ writes' = writes + 1
  /\ LET k == Key(Rings[process[p].ring]) IN
     process' = [process EXCEPT ![p].pending =
                   [record |-> r, envelope |-> Envelope(k, k, writes', expires)]]
  /\ UNCHANGED <<table, reports, locks, rotation, purge, ghosts, requests>>

WriteMetadata(p) ==
  /\ process[p].pending # None
  /\ LET r == process[p].pending.record  e == process[p].pending.envelope IN
     /\ rowLock[r] = Free
     /\ table' = [table EXCEPT ![r] = e] /\ latest' = [latest EXCEPT ![r] = e.content]
  /\ process' = [process EXCEPT ![p].pending = None]
  /\ UNCHANGED <<reports, locks, rotation, purge, retirable, writes, requests>>

\* Rows are gone.  A statement that is still to come to one of them skips it,
\* also when its id is written again: that is another row, of a later snapshot.
Skipping(gone) ==
  [t \in Rotators |-> IF rotation[t].pc = "locking"
                      THEN [rotation[t] EXCEPT !.ids = @ \ gone] ELSE rotation[t]]

DeleteMetadata(r) ==
  /\ table[r] # None /\ rowLock[r] = Free
  /\ table' = [table EXCEPT ![r] = None] /\ latest' = [latest EXCEPT ![r] = 0]
  /\ rotation' = Skipping({r})
  /\ purge' = IF purge = None THEN None ELSE [purge EXCEPT !.seen = @ \ {r}]
  /\ UNCHANGED <<reports, locks, process, retirable, writes, requests>>

\* A process is restarted with a ring; what it was writing is lost.  When the
\* procedure is followed rings are given in order, a key is written under only
\* once everyone holds it, and dropped only after a rotation that began when
\* nobody wrote under it any more.
MayChangeRing(p, i) ==
  \/ ~FollowsProcedure
  \/ /\ i = process[p].ring + 1
     /\ \A q \in Processes : Key(Rings[i]) \in KeysOf(Rings[process[q].ring])
     /\ KeysOf(Rings[process[p].ring]) \subseteq KeysOf(Rings[i]) \/ retirable
ChangeRing(p, i) ==
  /\ i # process[p].ring /\ MayChangeRing(p, i)
  /\ process' = [process EXCEPT ![p] = [ring |-> i, pending |-> None]]
  /\ UNCHANGED <<table, reports, locks, rotation, purge, ghosts, writes, requests>>
-----------------------------------------------------------------------------
(* purgeExpiredMetadata: one DELETE, that locks rows in the order of its   *)
(* scan and looks at each of them again once it has the lock.              *)
Expired == {r \in Records : table[r] # None /\ table[r].expires}

StartPurge(order) ==
  /\ purge = None /\ order # <<>>
  /\ purge' = [todo |-> order, seen |-> Expired, doomed |-> {}]
  /\ UNCHANGED <<table, reports, locks, process, rotation, ghosts, writes, requests>>

PurgeRow ==
  /\ purge # None /\ purge.todo # <<>>
  /\ LET r == Head(purge.todo) IN
     /\ r \in purge.seen => rowLock[r] = Free
     /\ IF r \in purge.seen \intersect Expired
        THEN /\ rowLock' = [rowLock EXCEPT ![r] = Purger]
             /\ purge' = [purge EXCEPT !.todo = Tail(@), !.doomed = @ \union {r}]
        ELSE purge' = [purge EXCEPT !.todo = Tail(@)] /\ UNCHANGED rowLock
  /\ UNCHANGED <<table, reports, idLock, process, rotation, ghosts, writes, requests>>

Release(holder) == [r \in Records |-> IF rowLock[r] = holder THEN Free ELSE rowLock[r]]

EndPurge(doomed) ==
  /\ purge' = None /\ rowLock' = Release(Purger)
  /\ table' = [r \in Records |-> IF r \in doomed THEN None ELSE table[r]]
  /\ latest' = [r \in Records |-> IF r \in doomed THEN 0 ELSE latest[r]]
  /\ rotation' = Skipping(doomed)
  /\ UNCHANGED <<reports, idLock, process, retirable, writes, requests>>
CommitPurge == purge # None /\ purge.todo = <<>> /\ EndPurge(purge.doomed)
AbortPurge == purge # None /\ EndPurge({})
-----------------------------------------------------------------------------
(* rotate.                                                                 *)
Request(t, id, source, target) ==
  /\ rotation[t].pc = "idle" /\ requests < MaxRequests
  /\ ~FollowsProcedure \/ \A p \in Processes : target \in KeysOf(Rings[process[p].ring])
  /\ requests' = requests + 1
  /\ rotation' = [rotation EXCEPT ![t] = Requested(id, source, target)]
  /\ UNCHANGED <<table, reports, locks, process, purge, ghosts, writes>>

ReleaseAll(t) ==
  /\ rowLock' = Release(t)
  /\ idLock' = [i \in Ids |-> IF idLock[i] = t THEN Free ELSE idLock[i]]

\* The transaction ends without having changed anything.
Answers(t, result) ==
  /\ rotation' = [rotation EXCEPT ![t] =
       Settled([id |-> rotation[t].id, target |-> rotation[t].target, outcome |-> result])]
  /\ ReleaseAll(t)
  /\ UNCHANGED <<table, reports, process, purge, ghosts, writes, requests>>

PriorOutcome(t) ==
  IF reports[rotation[t].id].target = rotation[t].target THEN "duplicate" ELSE "conflict"

TakeIdLock(t) ==
  /\ rotation[t].pc = "requested" /\ idLock[rotation[t].id] = Free
  /\ IF reports[rotation[t].id] # None
     THEN Answers(t, PriorOutcome(t))
     ELSE /\ idLock' = [idLock EXCEPT ![rotation[t].id] = t]
          /\ rotation' = [rotation EXCEPT ![t].pc = "begun"]
          /\ UNCHANGED <<table, reports, rowLock, process, purge, ghosts, writes, requests>>

\* Nobody writes under a key that is to be dropped; a restarted process has
\* lost what it had encrypted.
AllWriteUnder(k) == \A p \in Processes : Key(Rings[process[p].ring]) = k

\* The snapshot of the SELECT: a row inserted after it is not seen.
Select(t) ==
  /\ rotation[t].pc = "begun"
  /\ rotation' = [rotation EXCEPT ![t] =
       [@ EXCEPT !.pc = "locking", !.ids = {r \in Records : table[r] # None},
                 !.clean = rotation[t].target = LastKey /\ AllWriteUnder(LastKey)]]
  /\ UNCHANGED <<table, reports, locks, process, purge, ghosts, writes, requests>>

Lowest(S) == CHOOSE r \in S : \A s \in S : r <= s

Read(t, r) ==
  [s \in DOMAIN rotation[t].rows \union {r} |->
     IF s = r THEN table[r] ELSE rotation[t].rows[s]]

\* Fault: the SELECT does not lock.
ReadRow(t) ==
  /\ rotation[t].pc = "locking" /\ rotation[t].ids # {}
  /\ LET r == Lowest(rotation[t].ids) IN
     rotation' = [rotation EXCEPT ![t].ids = @ \ {r}, ![t].rows = Read(t, r)]
  /\ UNCHANGED <<table, reports, locks, process, purge, ghosts, writes, requests>>

\* FOR UPDATE: the row is waited for and read again under its lock.
LockRow(t) ==
  /\ rotation[t].pc = "locking" /\ rotation[t].ids # {}
  /\ LET r == Lowest(rotation[t].ids) IN
     /\ rowLock[r] = Free
     /\ rowLock' = [rowLock EXCEPT ![r] = t]
     /\ rotation' = [rotation EXCEPT ![t].ids = @ \ {r}, ![t].rows = Read(t, r)]
  /\ UNCHANGED <<table, reports, idLock, process, purge, ghosts, writes, requests>>

Candidates(t) ==
  {r \in DOMAIN rotation[t].rows : rotation[t].rows[r].key # rotation[t].target}

Selected(t) ==
  /\ rotation[t].pc = "locking" /\ rotation[t].ids = {}
  /\ IF Candidates(t) = {}
     THEN Answers(t, "invalid_input")
     ELSE /\ rotation' = [rotation EXCEPT ![t].pc = "rewrapping"]
          /\ UNCHANGED <<table, reports, locks, process, purge, ghosts, writes, requests>>

Left(t) == Candidates(t) \ DOMAIN rotation[t].moved

\* One data key is unwrapped by the source and wrapped by the target; a record
\* the source cannot unwrap ends the whole rotation.
Rewrap(t) ==
  /\ rotation[t].pc = "rewrapping" /\ Left(t) # {}
  /\ LET r == Lowest(Left(t))  e == rotation[t].rows[r] IN
     IF SameProvider(rotation[t].source, e) /\ Unwraps(rotation[t].source, e)
     THEN /\ rotation' = [rotation EXCEPT ![t].moved =
               [s \in DOMAIN @ \union {r} |->
                  IF s = r THEN Rewrapped(e, rotation[t].target) ELSE @[s]]]
          /\ UNCHANGED <<table, reports, locks, process, purge, ghosts, writes, requests>>
     ELSE Answers(t, "failed")

\* An UPDATE finds no row when it has been deleted.
Updated(moved) ==
  [r \in Records |-> IF r \in DOMAIN moved /\ table[r] # None THEN moved[r] ELSE table[r]]

Commit(t) ==
  /\ rotation[t].pc = "rewrapping" /\ Left(t) = {}
  /\ table' = Updated(rotation[t].moved)
  /\ reports' = [reports EXCEPT ![rotation[t].id] =
       [target |-> rotation[t].target, records |-> DOMAIN rotation[t].moved]]
  /\ retirable' = (retirable \/ rotation[t].clean)
  /\ rotation' = [rotation EXCEPT ![t].pc = "committed"]
  /\ ReleaseAll(t)
  /\ UNCHANGED <<process, purge, latest, writes, requests>>

Answer(t) == rotation[t].pc = "committed" /\ Answers(t, "rotated")

\* Fault: the connection goes back to the pool with its transaction open.
AbortHoldingLocks(t) ==
  /\ rotation[t].pc \notin {"idle", "requested", "committed"}
  /\ rotation' = [rotation EXCEPT ![t] = Settled(None)]
  /\ UNCHANGED <<table, reports, locks, process, purge, ghosts, writes, requests>>

\* A failed statement is rolled back, and so is the transaction of a lost
\* connection.
Abort(t) ==
  /\ rotation[t].pc \notin {"idle", "requested", "committed"}
  /\ rotation' = [rotation EXCEPT ![t] = Settled(None)] /\ ReleaseAll(t)
  /\ UNCHANGED <<table, reports, process, purge, ghosts, writes, requests>>

LoseAnswer(t) ==
  /\ rotation[t].pc = "committed"
  /\ rotation' = [rotation EXCEPT ![t] = Settled(None)]
  /\ UNCHANGED <<table, reports, locks, process, purge, ghosts, writes, requests>>

\* PostgreSQL ends one of two transactions that wait for each other.
Waits(t) == rotation[t].pc = "locking" /\ rotation[t].ids # {}
Deadlocked(t) ==
  /\ Waits(t) /\ rowLock[Lowest(rotation[t].ids)] = Purger
  /\ purge # None /\ purge.todo # <<>>
  /\ Head(purge.todo) \in purge.seen /\ rowLock[Head(purge.todo)] = t
DetectDeadlock(t) == Deadlocked(t) /\ (Abort(t) \/ AbortPurge)
-----------------------------------------------------------------------------
Advance(t) ==
  \/ TakeIdLock(t) \/ Select(t) \/ LockRow(t) \/ Selected(t) \/ Rewrap(t) \/ Commit(t)
  \/ Answer(t)
Purging == PurgeRow \/ CommitPurge

Next ==
  \/ \E p \in Processes :
       \/ \E r \in Records, x \in Retention : Encrypt(p, r, x)
       \/ WriteMetadata(p)
       \/ \E i \in DOMAIN Rings : ChangeRing(p, i)
  \/ \E r \in Records : DeleteMetadata(r)
  \/ \E order \in SetToSeqs(Expired) : StartPurge(order)
  \/ Purging \/ AbortPurge
  \/ \E t \in Rotators :
       \/ \E i \in Ids, s \in Sources, k \in Targets : Request(t, i, s, k)
       \/ Advance(t) \/ DetectDeadlock(t) \/ Abort(t) \/ LoseAnswer(t)

Spec == Init /\ [][Next]_vars

\* The database runs the transactions it has and queues those that wait for a
\* lock, so that a later one does not overtake them for ever; nobody has to
\* write, restart or ask, and no rollback is counted on.
FairSpec ==
  /\ Spec /\ WF_vars(Purging)
  /\ \A t \in Rotators : SF_vars(Advance(t)) /\ WF_vars(DetectDeadlock(t))
-----------------------------------------------------------------------------
(* Properties.                                                             *)

Keys == (UNION {KeysOf(Rings[i]) : i \in DOMAIN Rings}) \union Targets
Envelopes == [key : Keys, under : Keys, content : 1..MaxWrites, expires : BOOLEAN]

\* Shapes; a report names records; locks are held by those that hold them.
TypeOK ==
  /\ table \in [Records -> Envelopes \union {None}]
  /\ \A i \in Ids : reports[i] # None => reports[i].target \in Targets
                                          /\ reports[i].records \in (SUBSET Records) \ {{}}
  /\ \A t \in Rotators : rotation[t].pc \in {"idle", "requested", "committed"} =>
       /\ \A r \in Records : rowLock[r] # t
       /\ \A i \in Ids : idLock[i] # t
  /\ \A r \in Records : rowLock[r] = Purger => purge # None /\ r \in purge.doomed

\* A rotation rereads the rows it has waited for: no write that was committed
\* while it selected and rewrapped is overwritten, and no deletion undone.
NoWriteIsLost ==
  \A r \in Records : latest[r] = (IF table[r] = None THEN 0 ELSE table[r].content)

\* The same id never answers for two rotations: who is told that its rotation
\* was done, at once or as a duplicate after a lost answer, finds a report of
\* the target it asked for.
AnswersAgree ==
  \A t \in Rotators :
    rotation[t].result # None /\ rotation[t].result.outcome \in {"rotated", "duplicate"} =>
      reports[rotation[t].result.id] # None
      /\ reports[rotation[t].result.id].target = rotation[t].result.target

\* A record changes its key without changing its content only in the step that
\* leaves the report which counts it; a report counts no other; and reports
\* are never changed.
Moved == {r \in Records : table[r] # None /\ table'[r] # None
                          /\ table'[r].content = table[r].content
                          /\ table'[r].key # table[r].key}
RotationStep ==
  /\ \A i \in Ids : reports[i] # None => reports'[i] = reports[i]
  /\ \A i \in Ids : reports[i] = None /\ reports'[i] # None =>
       Moved = reports'[i].records
       /\ \A r \in Moved : table'[r].key = reports'[i].target
  /\ Moved # {} => reports' # reports

\* When keys are handed out, written under, rotated to and dropped in that
\* order, every process can read every record at every moment: while it is
\* rewrapped, while some processes are restarted and others are not, and after
\* the old key is gone.
EveryoneCanRead ==
  \A p \in Processes, r \in Records :
    table[r] # None => Decrypts(Rings[process[p].ring], table[r])

=============================================================================
