------------------------------ MODULE BackupChain ------------------------------
(***************************************************************************)
(* The authenticated chain of logical backups (keyCustody.ts) and the file *)
(* outside the database that says which generation is current              *)
(* (fileBackupInventory.ts).  A backup reads the inventory, signs a        *)
(* manifest that names its generation and its parent, stores its artifact, *)
(* and only then registers itself; an old generation is retired after its  *)
(* artifact is gone.  The inventory is rewritten through a file of its own *)
(* and a lock file, by processes that may die between any two calls.       *)
(*                                                                         *)
(* A manifest is its digest, a number no other manifest has; its signature *)
(* is taken to be its signer's.                                            *)
(***************************************************************************)
EXTENDS Integers, Sequences, FiniteSets

CONSTANTS
  Processes,                  \* that create backups and retire them
  MaxBackups, MaxRetirements  \* bounds

BackupAssumption ==
  /\ {MaxBackups, MaxRetirements} \subseteq Nat
  /\ {"free", "stale"} \cap Processes = {}   \* no process is called so

VARIABLES
  inventory,                  \* entries of the inventory's document
  next,                       \* the document in its .next file
  lockFile,                   \* the process that made it, Free, or Stale
  artifacts,                  \* backups that are stored
  process,                    \* the call a process is in
  retirements,                \* their number, for the bound
  signed,                     \* ghost: the manifests, by their digests
  created, failed             \* ghost: backups that were answered so

files == <<inventory, next, lockFile, artifacts>>
counts == <<retirements, signed>>
ghosts == <<created, failed>>
vars == <<files, process, counts, ghosts>>

None == [none |-> TRUE]
Free == "free"
Stale == "stale"
Idle == [pc |-> "idle"]

Init ==
  /\ inventory = <<>> /\ next = None /\ lockFile = Free /\ artifacts = {}
  /\ process = [p \in Processes |-> Idle]
  /\ retirements = 0 /\ signed = <<>> /\ created = {} /\ failed = {}
-----------------------------------------------------------------------------
(* The chain.                                                              *)

\* The document a read accepts: its generations are counted from one, which
\* their places say here, and the current one is retained.
ValidDocument(doc) == doc # <<>> => doc[Len(doc)].status = "retained"

DigestOf(doc) == IF doc = <<>> THEN 0 ELSE doc[Len(doc)].digest

Manifest(digest, doc) ==
  [digest |-> digest, generation |-> Len(doc) + 1, parent |-> DigestOf(doc)]

Verifies(a) ==
  /\ inventory # <<>> /\ ValidDocument(inventory)
  /\ a.generation = Len(inventory) /\ a.digest = DigestOf(inventory)

Call(pc, kind, manifest) ==
  [pc |-> pc, kind |-> kind, manifest |-> manifest, doc |-> <<>>, outcome |-> "failed"]

\* create: the inventory is read, and the manifest is signed.
StartBackup(p) ==
  /\ process[p] = Idle /\ ValidDocument(inventory) /\ Len(signed) < MaxBackups
  /\ LET manifest == Manifest(Len(signed) + 1, inventory) IN
     /\ signed' = Append(signed, manifest)
     /\ process' = [process EXCEPT ![p] = Call("persisting", "register", manifest)]
  /\ UNCHANGED <<files, retirements, ghosts>>

\* Fault: the artifact is stored once it is registered.
PersistLater(p) ==
  /\ process[p].pc = "persisting"
  /\ process' = [process EXCEPT ![p].pc = "locking"]
  /\ UNCHANGED <<files, counts, ghosts>>
Persist(p) ==
  /\ process[p].pc = "persisting"
  /\ artifacts' = artifacts \union {process[p].manifest}
  /\ process' = [process EXCEPT ![p].pc = "locking"]
  /\ UNCHANGED <<inventory, next, lockFile, counts, ghosts>>

\* The call throws or returns; its caller is told.
Ends(p, outcome) ==
  LET a == process[p].manifest  registers == process[p].kind = "register" IN
  /\ process' = [process EXCEPT ![p] = Idle]
  /\ created' = IF registers /\ outcome = "done" THEN created \union {a} ELSE created
  /\ failed' = IF registers /\ outcome = "failed" THEN failed \union {a} ELSE failed

PersistFails(p) ==
  process[p].pc = "persisting" /\ Ends(p, "failed") /\ UNCHANGED <<files, counts>>

\* recordDeletion, of a generation the operator has read in the history.
StartRetirement(p, g) ==
  /\ process[p] = Idle /\ retirements < MaxRetirements
  /\ retirements' = retirements + 1
  /\ process' = [process EXCEPT ![p] =
       Call("locking", "retire",
            [digest |-> inventory[g].digest, generation |-> g, parent |-> 0])]
  /\ UNCHANGED <<files, signed, ghosts>>
-----------------------------------------------------------------------------
(* The inventory: a lock file, the document, a new document, a rename.     *)

\* Whoever finds the lock file is told so, and does not wait.
TakeLock(p) ==
  /\ process[p].pc = "locking"
  /\ IF lockFile = Free
     THEN /\ lockFile' = p /\ process' = [process EXCEPT ![p].pc = "reading"]
          /\ UNCHANGED <<inventory, next, artifacts, counts, ghosts>>
     ELSE Ends(p, "failed") /\ UNCHANGED <<files, counts>>

ReadDocument(p) ==
  /\ process[p].pc = "reading"
  /\ process' = [process EXCEPT ![p].doc = inventory,
       ![p].pc = IF ValidDocument(inventory) THEN "checking" ELSE "unlocking"]
  /\ UNCHANGED <<files, counts, ghosts>>

MayRegister(p) == process[p].manifest.generation = Len(process[p].doc) + 1

MayRetire(p) ==
  LET g == process[p].manifest.generation IN
    /\ g \in DOMAIN process[p].doc /\ g # Len(process[p].doc)
    /\ process[p].doc[g] = [digest |-> process[p].manifest.digest, status |-> "retained"]

Registered(p) == Append(process[p].doc, [digest |-> process[p].manifest.digest,
                                         status |-> "retained"])
Retired(p) == [process[p].doc EXCEPT ![process[p].manifest.generation].status = "deleted"]

MayUpdate(p) == IF process[p].kind = "register" THEN MayRegister(p) ELSE MayRetire(p)
Updated(p) == IF process[p].kind = "register" THEN Registered(p) ELSE Retired(p)

\* The check, and the .next file, which must not exist yet.
WriteNext(p) ==
  /\ process[p].pc = "checking"
  /\ IF MayUpdate(p) /\ next = None
     THEN /\ next' = [doc |-> Updated(p)]
          /\ process' = [process EXCEPT ![p].pc = "renaming"]
     ELSE process' = [process EXCEPT ![p].pc = "unlocking"] /\ UNCHANGED next
  /\ UNCHANGED <<inventory, lockFile, artifacts, counts, ghosts>>

\* A write that fails may leave a part of the file, which nobody ever reads.
WriteFails(p) ==
  /\ process[p].pc = "checking" /\ MayUpdate(p) /\ next = None
  /\ next' \in {None, [doc |-> <<>>]}
  /\ process' = [process EXCEPT ![p].pc = "unlocking"]
  /\ UNCHANGED <<inventory, lockFile, artifacts, counts, ghosts>>

\* A rename that fails removes the .next file, unless that fails as well.
Rename(p) ==
  /\ process[p].pc = "renaming"
  /\ inventory' = next.doc /\ next' = None
  /\ process' = [process EXCEPT ![p].pc = "unlocking", ![p].outcome = "done"]
  /\ UNCHANGED <<lockFile, artifacts, counts, ghosts>>
RenameFails(p) ==
  /\ process[p].pc = "renaming"
  /\ next' \in {None, next}
  /\ process' = [process EXCEPT ![p].pc = "unlocking"]
  /\ UNCHANGED <<inventory, lockFile, artifacts, counts, ghosts>>

\* A lock file that cannot be removed stays, and its failure is not reported; one
\* that cannot be closed stays, and the caller gets an error that does not tell
\* whether the inventory was updated.
Unlock(p) ==
  /\ process[p].pc = "unlocking"
  /\ \/ lockFile' \in {Free, Stale} /\ Ends(p, process[p].outcome)
     \/ lockFile' = Stale /\ Ends(p, "unclear")
  /\ UNCHANGED <<inventory, next, artifacts, counts>>

Crash(p) ==
  /\ process[p] # Idle
  /\ process' = [process EXCEPT ![p] = Idle]
  /\ lockFile' = IF lockFile = p THEN Stale ELSE lockFile
  /\ UNCHANGED <<inventory, next, artifacts, counts, ghosts>>

\* The operator removes what a dead process or a failed write left, and the
\* artifact of a generation that is retired.
ClearStale ==
  /\ lockFile = Stale \/ (lockFile = Free /\ next # None)
  /\ lockFile' = Free /\ next' = None
  /\ UNCHANGED <<inventory, artifacts, process, counts, ghosts>>
RemoveArtifact(a) ==
  /\ a.generation \in DOMAIN inventory
  /\ inventory[a.generation] = [digest |-> a.digest, status |-> "deleted"]
  /\ artifacts' = artifacts \ {a}
  /\ UNCHANGED <<inventory, next, lockFile, process, counts, ghosts>>
-----------------------------------------------------------------------------
Next ==
  \/ \E p \in Processes :
       \/ StartBackup(p) \/ Persist(p) \/ PersistFails(p)
       \/ \E g \in DOMAIN inventory : StartRetirement(p, g)
       \/ TakeLock(p) \/ ReadDocument(p) \/ WriteNext(p) \/ WriteFails(p)
       \/ Rename(p) \/ RenameFails(p) \/ Unlock(p) \/ Crash(p)
  \/ ClearStale \/ \E a \in artifacts : RemoveArtifact(a)

Spec == Init /\ [][Next]_vars
-----------------------------------------------------------------------------
(* Properties.                                                             *)

Manifests == [digest : 1..MaxBackups, generation : 1..MaxBackups, parent : 0..MaxBackups]
Entries == [digest : 1..MaxBackups, status : {"retained", "deleted"}]
Updating(p) == process[p].pc \in {"reading", "checking", "renaming", "unlocking"}

\* Shapes; the lock file is that of the one process that updates the inventory.
TypeOK ==
  /\ inventory \in Seq(Entries) /\ artifacts \subseteq Manifests
  /\ lockFile \in Processes \union {Free, Stale}
  /\ \A p \in Processes : Updating(p) <=> lockFile = p

\* Every registered generation continues the one before it, whatever backups
\* were made at the same time, failed, or were given up.
ChainIsLinked ==
  \A k \in DOMAIN inventory :
    LET a == signed[inventory[k].digest] IN
      a.generation = k /\ a.parent = (IF k = 1 THEN 0 ELSE inventory[k - 1].digest)

\* A backup that was answered keeps its place in the inventory, and one whose
\* caller saw it fail is never registered, although its artifact may be left;
\* an error at the closing of the lock file is no such answer.
AnswersAreTrue ==
  /\ \A a \in created :
       a.generation \in DOMAIN inventory /\ inventory[a.generation].digest = a.digest
  /\ \A a \in failed, k \in DOMAIN inventory : inventory[k].digest # a.digest

\* Once there is a backup there is always exactly one that can be restored:
\* its artifact is stored before it becomes current, is not retired while it
\* is, and no orphan of its generation verifies in its place.
OneIsRestorable ==
  inventory # <<>> => Cardinality({a \in artifacts : Verifies(a)}) = 1

\* The history only grows; an entry is never changed but to say that its
\* generation is retired.
HistoryIsKept ==
  /\ Len(inventory') >= Len(inventory)
  /\ \A k \in DOMAIN inventory :
       /\ inventory'[k].digest = inventory[k].digest
       /\ inventory[k].status = "deleted" => inventory'[k].status = "deleted"
=============================================================================
