----------------------- MODULE IdentityDocumentProofs ------------------------
(***************************************************************************)
(* Proofs about what TLC checks in the runs identity and documents: each   *)
(* behaviour of these runs moves one part, and their properties say of     *)
(* each part what OwnerIdentityProofs and DocumentProofs say of it.        *)
(***************************************************************************)
EXTENDS MCOwnerIdentity, MCDocumentWorkspace, TLAPS

-----------------------------------------------------------------------------
(***************************************************************************)
(* The Owner's identity and the recovery proofs: MCOwnerIdentity.          *)
(***************************************************************************)

(* The proofs about each part, with its constants.                         *)
Owning == INSTANCE OwnerIdentityProofs

Recovering == INSTANCE OwnerIdentityProofs WITH
  CredentialIds <- {1, 2}, SessionIds <- {1}, ChannelRefs <- {1},
  CommandKeys <- {1, 2, 3, 4}, AttemptIds <- {1, 2}, Expiries <- {1, 3},
  DatabaseSkews <- {0}

Guessing == INSTANCE OwnerIdentityProofs WITH
  AttemptIds <- {1, 2}, Expiries <- {4}, MaxLockMs <- 2,
  MaxSafe <- 6, MaxTime <- 3, MaxFailures <- 3


LEMMA OwningCounts ==
  \A S : /\ Cardinality(S) = Owning!Cardinality(S)
         /\ Proofs!Cardinality(S) = Owning!Proofs!Cardinality(S)
  BY DEF Cardinality, Owning!Cardinality, Proofs!Cardinality, Owning!Proofs!Cardinality

LEMMA OwningFails ==
  \A a, wrong, at : Proofs!RecordFailure(a, wrong, at) <=> Owning!Proofs!RecordFailure(a, wrong, at)
<1>1. Proofs!Doubled = Owning!Proofs!Doubled
  BY DEF Proofs!Doubled, Owning!Proofs!Doubled
<1>2. \A k : Proofs!LockMs(k) = Owning!Proofs!LockMs(k)
  BY <1>1 DEF Proofs!LockMs, Owning!Proofs!LockMs
<1>3. \A t : Proofs!TotalFailures(t) = Owning!Proofs!TotalFailures(t)
  BY OwningCounts DEF Proofs!TotalFailures, Owning!Proofs!TotalFailures, Proofs!Recorded,
     Owning!Proofs!Recorded
<1>4. \A a, wrong : Proofs!Counted(a, wrong) = Owning!Proofs!Counted(a, wrong)
  BY DEF Proofs!Counted, Owning!Proofs!Counted, Proofs!Factors, Owning!Proofs!Factors
<1> QED
  BY <1>2, <1>3, <1>4 DEF Proofs!RecordFailure, Owning!Proofs!RecordFailure


LEMMA OwningIs ==
  /\ Init <=> Owning!Init
  /\ Next <=> Owning!Next
  /\ vars = Owning!vars
  /\ PolicyAssumption => Owning!PolicyAssumption
  /\ StoreAssumption => Owning!StoreAssumption
<1>1. Init <=> Owning!Init
  BY
   DEF Init, Owning!Init, NotPending, Owning!NotPending,
       With, Owning!With, Proofs!ProofsInit,
       Owning!Proofs!ProofsInit
<1>2. \A c, s, replaced : Authenticate(c, s, replaced) <=> Owning!Authenticate(c, s, replaced)
  BY OwningCounts, ZenonT(60)
   DEF Authenticate, Owning!Authenticate, ActiveCredentials,
       Owning!ActiveCredentials, CanAdd, Owning!CanAdd,
       NewSessionId, Owning!NewSessionId, Revoke,
       Owning!Revoke, VerifySession, Owning!VerifySession,
       With, Owning!With
<1>3. \A key, actor : SessionCommand(key, actor) <=> Owning!SessionCommand(key, actor)
  <2>1. \A key, actor, c : AddCredential(key, actor, c) <=> Owning!AddCredential(key, actor, c)
    BY OwningCounts
     DEF AddCredential, Owning!AddCredential, Execute,
         Owning!Execute, RecentSession, Owning!RecentSession,
         With, Owning!With, VerifySession,
         Owning!VerifySession
  <2>2. \A key, actor, c : RevokeCredential(key, actor, c) <=> Owning!RevokeCredential(key, actor, c)
    BY OwningCounts
     DEF RevokeCredential, Owning!RevokeCredential, Execute,
         Owning!Execute, RecentSession, Owning!RecentSession,
         Revocable, Owning!Revocable,
         RevokeCredentialSessions, Owning!RevokeCredentialSessions,
         With, Owning!With, VerifySession,
         Owning!VerifySession, ActiveCredentials,
         Owning!ActiveCredentials, Revoke, Owning!Revoke
  <2>3. \A key, actor, target : RevokeSession(key, actor, target) <=> Owning!RevokeSession(key, actor, target)
    BY OwningCounts
     DEF RevokeSession, Owning!RevokeSession, Execute,
         Owning!Execute, RecentSession, Owning!RecentSession,
         Revoke, Owning!Revoke, With, Owning!With,
         VerifySession, Owning!VerifySession
  <2>4. \A key, actor, at : CancelRecovery(key, actor, at) <=> Owning!CancelRecovery(key, actor, at)
    BY OwningCounts
     DEF CancelRecovery, Owning!CancelRecovery, Execute,
         Owning!Execute, NotPending, Owning!NotPending,
         RecentSession, Owning!RecentSession, Proofs!Cancel,
         Owning!Proofs!Cancel, With, Owning!With,
         VerifySession, Owning!VerifySession, Proofs!Never,
         Owning!Proofs!Never, Proofs!Terminal, Owning!Proofs!Terminal
  <2>5. \A key, actor, to : BeginVerifiedChannelChange(key, actor, to) <=> Owning!BeginVerifiedChannelChange(key, actor, to)
    BY OwningCounts
     DEF BeginVerifiedChannelChange, Owning!BeginVerifiedChannelChange,
         CanAdd, Owning!CanAdd, Execute, Owning!Execute,
         NotPending, Owning!NotPending, RecentSession,
         Owning!RecentSession, With, Owning!With,
         VerifySession, Owning!VerifySession
  <2>6. \A key, actor : CompleteVerifiedChannelChange(key, actor) <=> Owning!CompleteVerifiedChannelChange(key, actor)
    BY OwningCounts
     DEF CompleteVerifiedChannelChange,
         Owning!CompleteVerifiedChannelChange, Execute, Owning!Execute,
         NotPending, Owning!NotPending, RecentSession,
         Owning!RecentSession, RevokeAllSessions,
         Owning!RevokeAllSessions, With, Owning!With,
         VerifySession, Owning!VerifySession, Revoke,
         Owning!Revoke
  <2>7. \A key, actor : CancelVerifiedChannelChange(key, actor) <=> Owning!CancelVerifiedChannelChange(key, actor)
    BY OwningCounts
     DEF CancelVerifiedChannelChange, Owning!CancelVerifiedChannelChange,
         Execute, Owning!Execute, NotPending,
         Owning!NotPending, RecentSession, Owning!RecentSession,
         With, Owning!With, VerifySession,
         Owning!VerifySession
  <2> QED
    BY <2>1, <2>2, <2>3, <2>4, <2>5, <2>6, <2>7
       DEF SessionCommand, Owning!SessionCommand, Proofs!DatabaseClock, Owning!Proofs!DatabaseClock
<1>4. \A key, a, at : RecoveryCommand(key, a, at) <=> Owning!RecoveryCommand(key, a, at)
  BY
   DEF RecoveryCommand, Owning!RecoveryCommand,
       BeginRecovery, Owning!BeginRecovery,
       CompleteRecovery, Owning!CompleteRecovery, CanAdd,
       Owning!CanAdd, Execute, Owning!Execute, NotPending,
       Owning!NotPending, RecoveryReadyAt, Owning!RecoveryReadyAt,
       Proofs!Accept, Owning!Proofs!Accept, ReadyToComplete,
       Owning!ReadyToComplete, RevokeAllSessions,
       Owning!RevokeAllSessions, With, Owning!With,
       Proofs!Consume, Owning!Proofs!Consume,
       Proofs!Acceptable, Owning!Proofs!Acceptable, Revoke,
       Owning!Revoke, Proofs!Consumable, Owning!Proofs!Consumable,
       Proofs!Never, Owning!Proofs!Never, Proofs!Open,
       Owning!Proofs!Open, Proofs!Factors, Owning!Proofs!Factors,
       Proofs!Locked, Owning!Proofs!Locked, Proofs!Terminal,
       Owning!Proofs!Terminal
<1>5. \A a, at : RecoveryDenied(a, at) <=> Owning!RecoveryDenied(a, at)
  BY OwningFails
   DEF RecoveryDenied, Owning!RecoveryDenied,
       BeginRecoveryDenied, Owning!BeginRecoveryDenied,
       CompleteRecoveryDenied, Owning!CompleteRecoveryDenied,
       Proofs!Factors, Owning!Proofs!Factors, CanAdd,
       Owning!CanAdd, NotPending, Owning!NotPending,
       RecoveryReadyAt, Owning!RecoveryReadyAt, identity,
       Owning!identity, Proofs!RefuseAccept, Owning!Proofs!RefuseAccept,
       ReadyToComplete, Owning!ReadyToComplete,
       Proofs!RefuseConsume, Owning!Proofs!RefuseConsume,
       Proofs!Acceptable, Owning!Proofs!Acceptable,
       Proofs!Consumable, Owning!Proofs!Consumable,
       Proofs!Never, Owning!Proofs!Never, Proofs!Open,
       Owning!Proofs!Open, Proofs!Locked, Owning!Proofs!Locked,
       Proofs!Terminal, Owning!Proofs!Terminal
<1>6. \A a, factor, expiresAt, at :
        IssueProof(a, factor, expiresAt, at) <=> Owning!IssueProof(a, factor, expiresAt, at)
  BY
   DEF IssueProof, Owning!IssueProof, identity,
       Owning!identity, Proofs!Issue, Owning!Proofs!Issue,
       Proofs!Never, Owning!Proofs!Never, Proofs!NewAttempt,
       Owning!Proofs!NewAttempt, Proofs!Terminal,
       Owning!Proofs!Terminal, Proofs!Factors, Owning!Proofs!Factors
<1>7. Tick <=> Owning!Tick
  BY
   DEF Tick, Owning!Tick, identity, Owning!identity,
       Proofs!Tick, Owning!Proofs!Tick
<1>8. /\ Proofs!DatabaseClock = Owning!Proofs!DatabaseClock
      /\ Proofs!Factors = Owning!Proofs!Factors
  BY
   DEF Proofs!DatabaseClock, Owning!Proofs!DatabaseClock, Proofs!Factors, Owning!Proofs!Factors
<1>9. Next <=> Owning!Next
  BY <1>2, <1>3, <1>4, <1>5, <1>6, <1>7, <1>8 DEF Next, Owning!Next
<1>10. /\ vars = Owning!vars
       /\ PolicyAssumption => Owning!PolicyAssumption
       /\ StoreAssumption => Owning!StoreAssumption
  BY
   DEF vars, Owning!vars, PolicyAssumption,
       Owning!PolicyAssumption, StoreAssumption, Owning!StoreAssumption,
       identity, Owning!identity, Proofs!ProofsAssumption,
       Owning!Proofs!ProofsAssumption
<1> QED
  BY <1>1, <1>9, <1>10


LEMMA RecoveringCounts ==
  \A S : /\ Recovery!Cardinality(S) = Recovering!Cardinality(S)
         /\ Recovery!Proofs!Cardinality(S) = Recovering!Proofs!Cardinality(S)
  BY DEF Recovery!Cardinality, Recovering!Cardinality, Recovery!Proofs!Cardinality, Recovering!Proofs!Cardinality

LEMMA RecoveringFails ==
  \A a, wrong, at : Recovery!Proofs!RecordFailure(a, wrong, at) <=> Recovering!Proofs!RecordFailure(a, wrong, at)
<1>1. Recovery!Proofs!Doubled = Recovering!Proofs!Doubled
  BY DEF Recovery!Proofs!Doubled, Recovering!Proofs!Doubled
<1>2. \A k : Recovery!Proofs!LockMs(k) = Recovering!Proofs!LockMs(k)
  BY <1>1 DEF Recovery!Proofs!LockMs, Recovering!Proofs!LockMs
<1>3. \A t : Recovery!Proofs!TotalFailures(t) = Recovering!Proofs!TotalFailures(t)
  BY RecoveringCounts DEF Recovery!Proofs!TotalFailures, Recovering!Proofs!TotalFailures, Recovery!Proofs!Recorded,
     Recovering!Proofs!Recorded
<1>4. \A a, wrong : Recovery!Proofs!Counted(a, wrong) = Recovering!Proofs!Counted(a, wrong)
  BY DEF Recovery!Proofs!Counted, Recovering!Proofs!Counted, Recovery!Proofs!Factors, Recovering!Proofs!Factors
<1> QED
  BY <1>2, <1>3, <1>4 DEF Recovery!Proofs!RecordFailure, Recovering!Proofs!RecordFailure


LEMMA RecoveringIs ==
  /\ Recovery!Init <=> Recovering!Init
  /\ Recovery!Next <=> Recovering!Next
  /\ Recovery!vars = Recovering!vars
  /\ Recovery!PolicyAssumption => Recovering!PolicyAssumption
  /\ Recovery!StoreAssumption => Recovering!StoreAssumption
<1>1. Recovery!Init <=> Recovering!Init
  BY
   DEF Recovery!Init, Recovering!Init, Recovery!NotPending,
       Recovering!NotPending, Recovery!With, Recovering!With,
       Recovery!Proofs!ProofsInit, Recovering!Proofs!ProofsInit
<1>2. \A c, s, replaced : Recovery!Authenticate(c, s, replaced) <=> Recovering!Authenticate(c, s, replaced)
  BY RecoveringCounts, ZenonT(60)
   DEF Recovery!Authenticate, Recovering!Authenticate,
       Recovery!ActiveCredentials, Recovering!ActiveCredentials,
       Recovery!CanAdd, Recovering!CanAdd,
       Recovery!NewSessionId, Recovering!NewSessionId,
       Recovery!Revoke, Recovering!Revoke,
       Recovery!VerifySession, Recovering!VerifySession,
       Recovery!With, Recovering!With
<1>3. \A key, actor : Recovery!SessionCommand(key, actor) <=> Recovering!SessionCommand(key, actor)
  <2>1. \A key, actor, c : Recovery!AddCredential(key, actor, c) <=> Recovering!AddCredential(key, actor, c)
    BY RecoveringCounts
     DEF Recovery!AddCredential, Recovering!AddCredential,
         Recovery!Execute, Recovering!Execute,
         Recovery!RecentSession, Recovering!RecentSession,
         Recovery!With, Recovering!With,
         Recovery!VerifySession, Recovering!VerifySession
  <2>2. \A key, actor, c : Recovery!RevokeCredential(key, actor, c) <=> Recovering!RevokeCredential(key, actor, c)
    BY RecoveringCounts
     DEF Recovery!RevokeCredential, Recovering!RevokeCredential,
         Recovery!Execute, Recovering!Execute,
         Recovery!RecentSession, Recovering!RecentSession,
         Recovery!Revocable, Recovering!Revocable,
         Recovery!RevokeCredentialSessions,
         Recovering!RevokeCredentialSessions, Recovery!With,
         Recovering!With, Recovery!VerifySession,
         Recovering!VerifySession, Recovery!ActiveCredentials,
         Recovering!ActiveCredentials, Recovery!Revoke, Recovering!Revoke
  <2>3. \A key, actor, target : Recovery!RevokeSession(key, actor, target) <=> Recovering!RevokeSession(key, actor, target)
    BY RecoveringCounts
     DEF Recovery!RevokeSession, Recovering!RevokeSession,
         Recovery!Execute, Recovering!Execute,
         Recovery!RecentSession, Recovering!RecentSession,
         Recovery!Revoke, Recovering!Revoke, Recovery!With,
         Recovering!With, Recovery!VerifySession, Recovering!VerifySession
  <2>4. \A key, actor, at : Recovery!CancelRecovery(key, actor, at) <=> Recovering!CancelRecovery(key, actor, at)
    BY RecoveringCounts
     DEF Recovery!CancelRecovery, Recovering!CancelRecovery,
         Recovery!Execute, Recovering!Execute,
         Recovery!NotPending, Recovering!NotPending,
         Recovery!RecentSession, Recovering!RecentSession,
         Recovery!Proofs!Cancel, Recovering!Proofs!Cancel,
         Recovery!With, Recovering!With,
         Recovery!VerifySession, Recovering!VerifySession,
         Recovery!Proofs!Never, Recovering!Proofs!Never,
         Recovery!Proofs!Terminal, Recovering!Proofs!Terminal
  <2>5. \A key, actor, to : Recovery!BeginVerifiedChannelChange(key, actor, to) <=> Recovering!BeginVerifiedChannelChange(key, actor, to)
    BY RecoveringCounts
     DEF Recovery!BeginVerifiedChannelChange,
         Recovering!BeginVerifiedChannelChange, Recovery!CanAdd,
         Recovering!CanAdd, Recovery!Execute, Recovering!Execute,
         Recovery!NotPending, Recovering!NotPending,
         Recovery!RecentSession, Recovering!RecentSession,
         Recovery!With, Recovering!With,
         Recovery!VerifySession, Recovering!VerifySession
  <2>6. \A key, actor : Recovery!CompleteVerifiedChannelChange(key, actor) <=> Recovering!CompleteVerifiedChannelChange(key, actor)
    BY RecoveringCounts
     DEF Recovery!CompleteVerifiedChannelChange,
         Recovering!CompleteVerifiedChannelChange, Recovery!Execute,
         Recovering!Execute, Recovery!NotPending, Recovering!NotPending,
         Recovery!RecentSession, Recovering!RecentSession,
         Recovery!RevokeAllSessions, Recovering!RevokeAllSessions,
         Recovery!With, Recovering!With,
         Recovery!VerifySession, Recovering!VerifySession,
         Recovery!Revoke, Recovering!Revoke
  <2>7. \A key, actor : Recovery!CancelVerifiedChannelChange(key, actor) <=> Recovering!CancelVerifiedChannelChange(key, actor)
    BY RecoveringCounts
     DEF Recovery!CancelVerifiedChannelChange,
         Recovering!CancelVerifiedChannelChange, Recovery!Execute,
         Recovering!Execute, Recovery!NotPending, Recovering!NotPending,
         Recovery!RecentSession, Recovering!RecentSession,
         Recovery!With, Recovering!With,
         Recovery!VerifySession, Recovering!VerifySession
  <2> QED
    BY <2>1, <2>2, <2>3, <2>4, <2>5, <2>6, <2>7
       DEF Recovery!SessionCommand, Recovering!SessionCommand, Recovery!Proofs!DatabaseClock, Recovering!Proofs!DatabaseClock
<1>4. \A key, a, at : Recovery!RecoveryCommand(key, a, at) <=> Recovering!RecoveryCommand(key, a, at)
  BY
   DEF Recovery!RecoveryCommand, Recovering!RecoveryCommand,
       Recovery!BeginRecovery, Recovering!BeginRecovery,
       Recovery!CompleteRecovery, Recovering!CompleteRecovery,
       Recovery!CanAdd, Recovering!CanAdd, Recovery!Execute,
       Recovering!Execute, Recovery!NotPending, Recovering!NotPending,
       Recovery!RecoveryReadyAt, Recovering!RecoveryReadyAt,
       Recovery!Proofs!Accept, Recovering!Proofs!Accept,
       Recovery!ReadyToComplete, Recovering!ReadyToComplete,
       Recovery!RevokeAllSessions, Recovering!RevokeAllSessions,
       Recovery!With, Recovering!With,
       Recovery!Proofs!Consume, Recovering!Proofs!Consume,
       Recovery!Proofs!Acceptable, Recovering!Proofs!Acceptable,
       Recovery!Revoke, Recovering!Revoke,
       Recovery!Proofs!Consumable, Recovering!Proofs!Consumable,
       Recovery!Proofs!Never, Recovering!Proofs!Never,
       Recovery!Proofs!Open, Recovering!Proofs!Open,
       Recovery!Proofs!Factors, Recovering!Proofs!Factors,
       Recovery!Proofs!Locked, Recovering!Proofs!Locked,
       Recovery!Proofs!Terminal, Recovering!Proofs!Terminal
<1>5. \A a, at : Recovery!RecoveryDenied(a, at) <=> Recovering!RecoveryDenied(a, at)
  BY RecoveringFails
   DEF Recovery!RecoveryDenied, Recovering!RecoveryDenied,
       Recovery!BeginRecoveryDenied, Recovering!BeginRecoveryDenied,
       Recovery!CompleteRecoveryDenied,
       Recovering!CompleteRecoveryDenied, Recovery!Proofs!Factors,
       Recovering!Proofs!Factors, Recovery!CanAdd, Recovering!CanAdd,
       Recovery!NotPending, Recovering!NotPending,
       Recovery!RecoveryReadyAt, Recovering!RecoveryReadyAt,
       Recovery!identity, Recovering!identity,
       Recovery!Proofs!RefuseAccept, Recovering!Proofs!RefuseAccept,
       Recovery!ReadyToComplete, Recovering!ReadyToComplete,
       Recovery!Proofs!RefuseConsume, Recovering!Proofs!RefuseConsume,
       Recovery!Proofs!Acceptable, Recovering!Proofs!Acceptable,
       Recovery!Proofs!Consumable, Recovering!Proofs!Consumable,
       Recovery!Proofs!Never, Recovering!Proofs!Never,
       Recovery!Proofs!Open, Recovering!Proofs!Open,
       Recovery!Proofs!Locked, Recovering!Proofs!Locked,
       Recovery!Proofs!Terminal, Recovering!Proofs!Terminal
<1>6. \A a, factor, expiresAt, at :
        Recovery!IssueProof(a, factor, expiresAt, at) <=> Recovering!IssueProof(a, factor, expiresAt, at)
  BY
   DEF Recovery!IssueProof, Recovering!IssueProof,
       Recovery!identity, Recovering!identity,
       Recovery!Proofs!Issue, Recovering!Proofs!Issue,
       Recovery!Proofs!Never, Recovering!Proofs!Never,
       Recovery!Proofs!NewAttempt, Recovering!Proofs!NewAttempt,
       Recovery!Proofs!Terminal, Recovering!Proofs!Terminal,
       Recovery!Proofs!Factors, Recovering!Proofs!Factors
<1>7. Recovery!Tick <=> Recovering!Tick
  BY
   DEF Recovery!Tick, Recovering!Tick, Recovery!identity,
       Recovering!identity, Recovery!Proofs!Tick, Recovering!Proofs!Tick
<1>8. /\ Recovery!Proofs!DatabaseClock = Recovering!Proofs!DatabaseClock
      /\ Recovery!Proofs!Factors = Recovering!Proofs!Factors
  BY
   DEF Recovery!Proofs!DatabaseClock, Recovering!Proofs!DatabaseClock, Recovery!Proofs!Factors, Recovering!Proofs!Factors
<1>9. Recovery!Next <=> Recovering!Next
  BY <1>2, <1>3, <1>4, <1>5, <1>6, <1>7, <1>8 DEF Recovery!Next, Recovering!Next
<1>10. /\ Recovery!vars = Recovering!vars
       /\ Recovery!PolicyAssumption => Recovering!PolicyAssumption
       /\ Recovery!StoreAssumption => Recovering!StoreAssumption
  BY
   DEF Recovery!vars, Recovering!vars,
       Recovery!PolicyAssumption, Recovering!PolicyAssumption,
       Recovery!StoreAssumption, Recovering!StoreAssumption,
       Recovery!identity, Recovering!identity,
       Recovery!Proofs!ProofsAssumption,
       Recovering!Proofs!ProofsAssumption
<1> QED
  BY <1>1, <1>9, <1>10


LEMMA GuessingCounts ==
  \A S : Store!Cardinality(S) = Guessing!Proofs!Cardinality(S)
  BY DEF Store!Cardinality, Guessing!Proofs!Cardinality

LEMMA GuessingFails ==
  \A a, wrong, at : Store!RecordFailure(a, wrong, at) <=> Guessing!Proofs!RecordFailure(a, wrong, at)
<1>1. Store!Doubled = Guessing!Proofs!Doubled
  BY DEF Store!Doubled, Guessing!Proofs!Doubled
<1>2. \A k : Store!LockMs(k) = Guessing!Proofs!LockMs(k)
  BY <1>1 DEF Store!LockMs, Guessing!Proofs!LockMs
<1>3. \A t : Store!TotalFailures(t) = Guessing!Proofs!TotalFailures(t)
  BY GuessingCounts DEF Store!TotalFailures, Guessing!Proofs!TotalFailures, Store!Recorded,
     Guessing!Proofs!Recorded
<1>4. \A a, wrong : Store!Counted(a, wrong) = Guessing!Proofs!Counted(a, wrong)
  BY DEF Store!Counted, Guessing!Proofs!Counted, Store!Factors, Guessing!Proofs!Factors
<1> QED
  BY <1>2, <1>3, <1>4 DEF Store!RecordFailure, Guessing!Proofs!RecordFailure

LEMMA GuessingIs ==
  /\ Store!ProofsInit <=> Guessing!Proofs!ProofsInit
  /\ Store!ProofsNext <=> Guessing!Proofs!ProofsNext
  /\ Store!proofVars = Guessing!Proofs!proofVars
  /\ Store!ProofsAssumption => Guessing!Proofs!ProofsAssumption
<1>1. \A a, factor, expiresAt, at :
        Store!Issue(a, factor, expiresAt, at)
          <=> Guessing!Proofs!Issue(a, factor, expiresAt, at)
  BY
   DEF Guessing!Proofs!Issue, Store!Issue, Guessing!Proofs!Never,
       Store!Never, Guessing!Proofs!NewAttempt,
       Store!NewAttempt, Guessing!Proofs!Terminal,
       Store!Terminal, Guessing!Proofs!Factors,
       Store!Factors
<1>2. \A a, at : Store!Present(a, at) <=> Guessing!Proofs!Present(a, at)
  BY GuessingFails
   DEF Guessing!Proofs!Present, Store!Present, Guessing!Proofs!Accept,
       Store!Accept, Guessing!Proofs!Consume, Store!Consume,
       Guessing!Proofs!Factors, Store!Factors,
       Guessing!Proofs!RefuseAccept, Store!RefuseAccept,
       Guessing!Proofs!RefuseConsume, Store!RefuseConsume,
       Guessing!Proofs!Acceptable, Store!Acceptable,
       Guessing!Proofs!Consumable, Store!Consumable,
       Guessing!Proofs!Never, Store!Never, Guessing!Proofs!Open,
       Store!Open, Guessing!Proofs!Locked, Store!Locked,
       Guessing!Proofs!Terminal, Store!Terminal
<1>3. \A a, at : Store!Cancel(a, at) <=> Guessing!Proofs!Cancel(a, at)
  BY
   DEF Guessing!Proofs!Cancel, Store!Cancel, Guessing!Proofs!Never,
       Store!Never, Guessing!Proofs!Terminal, Store!Terminal
<1>4. Store!ProofsNext <=> Guessing!Proofs!ProofsNext
  BY <1>1, <1>2, <1>3
     DEF Store!ProofsNext, Guessing!Proofs!ProofsNext, Store!Tick,
         Guessing!Proofs!Tick, Store!DatabaseClock, Guessing!Proofs!DatabaseClock,
         Store!Factors, Guessing!Proofs!Factors
<1>5. /\ Store!ProofsInit <=> Guessing!Proofs!ProofsInit
      /\ Store!proofVars = Guessing!Proofs!proofVars
      /\ Store!ProofsAssumption => Guessing!Proofs!ProofsAssumption
  BY
   DEF Guessing!Proofs!ProofsInit, Store!ProofsInit,
       Guessing!Proofs!proofVars, Store!proofVars,
       Guessing!Proofs!ProofsAssumption, Store!ProofsAssumption
<1> QED
  BY <1>4, <1>5

(* What the run says of them.                                              *)
LEMMA GuessingMeans ==
  /\ Guessing!Proofs!ProofsTypeOK => Store!ProofsTypeOK
  /\ Guessing!Proofs!GuessesAreLimited => Store!GuessesAreLimited
  /\ Guessing!Proofs!AttemptsAreCoherent => Proofs!AttemptsAreCoherent
<1>1. Guessing!Proofs!ProofsTypeOK => Store!ProofsTypeOK
  BY
   DEF Guessing!Proofs!ProofsTypeOK, Store!ProofsTypeOK,
       Guessing!Proofs!Attempts, Store!Attempts,
       Guessing!Proofs!Factors, Store!Factors, Guessing!Proofs!Times,
       Store!Times, Guessing!Proofs!Never, Store!Never
<1>2. \A k : Guessing!Proofs!LockMs(k) = Store!LockMs(k)
  <2>1. Store!Doubled = Guessing!Proofs!Doubled
    BY DEF Store!Doubled, Guessing!Proofs!Doubled
  <2> QED
    BY <2>1 DEF Guessing!Proofs!LockMs, Store!LockMs
<1>3. Guessing!Proofs!LockedTime = Store!LockedTime
  BY <1>2 DEF Guessing!Proofs!LockedTime, Store!LockedTime
<1>4. Guessing!Proofs!GuessesAreLimited => Store!GuessesAreLimited
  BY <1>3, GuessingCounts
   DEF Guessing!Proofs!GuessesAreLimited, Store!GuessesAreLimited,
       Guessing!Proofs!DatabaseClock, Store!DatabaseClock,
       Guessing!Proofs!TotalFailures, Store!TotalFailures,
       Guessing!Proofs!Recorded, Store!Recorded
<1>5. Guessing!Proofs!AttemptsAreCoherent => Proofs!AttemptsAreCoherent
  BY
   DEF Guessing!Proofs!AttemptsAreCoherent, Proofs!AttemptsAreCoherent,
       Guessing!Proofs!AttemptIsCoherent, Proofs!AttemptIsCoherent,
       Guessing!Proofs!Factors, Proofs!Factors, Guessing!Proofs!Never,
       Proofs!Never
<1> QED
  BY <1>1, <1>4, <1>5

LEMMA OwningMeans ==
  /\ Owning!RecoveryMatchesProofs => RecoveryMatchesProofs
  /\ Owning!Proofs!AttemptsAreCoherent => Proofs!AttemptsAreCoherent
  /\ Owning!TypeOK => TypeOK
<1>1. Owning!RecoveryMatchesProofs => RecoveryMatchesProofs
  BY
   DEF Owning!RecoveryMatchesProofs, RecoveryMatchesProofs,
       Owning!NotPending, NotPending, Owning!Proofs!Factors,
       Proofs!Factors, Owning!Proofs!Never, Proofs!Never,
       Owning!Proofs!Terminal, Proofs!Terminal
<1>2. Owning!Proofs!AttemptsAreCoherent => Proofs!AttemptsAreCoherent
  BY
   DEF Owning!Proofs!AttemptsAreCoherent, Proofs!AttemptsAreCoherent,
       Owning!Proofs!AttemptIsCoherent, Proofs!AttemptIsCoherent,
       Owning!Proofs!Factors, Proofs!Factors, Owning!Proofs!Never,
       Proofs!Never
<1>3. Owning!TypeOK => TypeOK
  BY
   DEF Owning!TypeOK, TypeOK, Owning!Changes, Changes,
       Owning!Fingerprints, Fingerprints, Owning!NotPending,
       NotPending, Owning!Recoveries, Recoveries,
       Owning!Sessions, Sessions, Owning!Statuses, Statuses,
       Owning!Proofs!ProofsTypeOK, Proofs!ProofsTypeOK,
       Owning!CommandTypes, CommandTypes, Owning!Proofs!Attempts,
       Proofs!Attempts, Owning!Proofs!Factors,
       Proofs!Factors, Owning!Proofs!Times, Proofs!Times,
       Owning!Proofs!Never, Proofs!Never
<1> QED
  BY <1>1, <1>2, <1>3

LEMMA RecoveringMeans ==
  /\ Recovering!RecoveryMatchesProofs => RecoveryMatchesProofs
  /\ Recovering!Proofs!AttemptsAreCoherent => Proofs!AttemptsAreCoherent
<1>1. Recovering!RecoveryMatchesProofs => RecoveryMatchesProofs
  BY
   DEF Recovering!RecoveryMatchesProofs, RecoveryMatchesProofs,
       Recovering!NotPending, NotPending, Recovering!Proofs!Factors,
       Proofs!Factors, Recovering!Proofs!Never,
       Proofs!Never, Recovering!Proofs!Terminal,
       Proofs!Terminal
<1>2. Recovering!Proofs!AttemptsAreCoherent => Proofs!AttemptsAreCoherent
  BY
   DEF Recovering!Proofs!AttemptsAreCoherent,
       Proofs!AttemptsAreCoherent, Recovering!Proofs!AttemptIsCoherent,
       Proofs!AttemptIsCoherent, Recovering!Proofs!Factors,
       Proofs!Factors, Recovering!Proofs!Never, Proofs!Never
<1> QED
  BY <1>1, <1>2


-----------------------------------------------------------------------------
(* A step of the run is a step of its part.  The first credential enrolled *)
(* is 1 in every part.                                                     *)
LEMMA IdentityStarts ==
  ASSUME CredentialIds \subseteq Nat \ {0}, MCInit
  PROVE  /\ part \in {"identity", "recovery", "proofs"}
         /\ Owning!Init /\ Recovering!Init
         /\ Guessing!Proofs!ProofsInit
<1>1. Owning!Init
  BY OwningIs DEF MCInit
<1>2. PICK c \in CredentialIds : credentials = Recovering!With(<<>>, c, "active")
  BY <1>1 DEF Owning!Init, Owning!With, Recovering!With
<1>3. c = 1
  <2>1. DOMAIN credentials = {c}
    BY <1>2 DEF Recovering!With
  <2>2. 1..c \subseteq {c}
    BY <2>1 DEF MCInit, InOrder
  <2> QED
    BY <2>2
<1>4. verifiedChannelRef = 1
  BY DEF MCInit
<1>5. Recovering!Proofs!ProofsInit /\ Guessing!Proofs!ProofsInit
  BY <1>1 DEF Owning!Init, Owning!Proofs!ProofsInit, Recovering!Proofs!ProofsInit,
       Guessing!Proofs!ProofsInit
<1>6. Recovering!Init
  BY <1>1, <1>2, <1>3, <1>4, <1>5 DEF Owning!Init, Recovering!Init,
     Owning!NotPending, Recovering!NotPending
<1> QED
  BY <1>1, <1>5, <1>6 DEF MCInit

LEMMA IdentitySteps ==
  ASSUME [MCNext]_allVars
  PROVE  /\ part' = part
         /\ part = "identity" => [Owning!Next]_(Owning!vars)
         /\ part = "recovery" => [Recovering!Next]_(Recovering!vars)
         /\ part = "proofs" => [Guessing!Proofs!ProofsNext]_(Guessing!Proofs!proofVars)
<1>1. UNCHANGED vars => /\ UNCHANGED Owning!vars /\ UNCHANGED Recovering!vars
                        /\ UNCHANGED Guessing!Proofs!proofVars
  BY DEF vars, identity, Owning!vars, Owning!identity,
         Recovering!vars, Recovering!identity, Guessing!Proofs!proofVars
<1>2. CASE UNCHANGED allVars
  BY <1>1, <1>2 DEF allVars
<1>3. CASE MCNext
  BY <1>3, OwningIs, RecoveringIs, GuessingIs DEF MCNext
<1> QED
  BY <1>2, <1>3

-----------------------------------------------------------------------------
(* What TLC checks of a small identity, of one that recovers twice and of  *)
(* the proof store alone is so: the Owner's record and the proof store     *)
(* agree as restore inspection demands, and no attempt is ever refused by  *)
(* it (identity.ts, execute; postgres.ts, applyRecoveryProofAction).       *)
THEOREM RecordsKeepMatching ==
  ASSUME CredentialIds \subseteq Nat \ {0},
         PolicyAssumption, StoreAssumption,
         Recovery!PolicyAssumption, Recovery!StoreAssumption,
         Store!ProofsAssumption
  PROVE  MCSpec => [](RecordsMatchProofs)
<1>1. /\ Owning!PolicyAssumption /\ Owning!StoreAssumption
      /\ Recovering!PolicyAssumption /\ Recovering!StoreAssumption
      /\ Guessing!PolicyAssumption /\ Guessing!StoreAssumption
  <2>1. Guessing!PolicyAssumption
    BY DEF PolicyAssumption, Guessing!PolicyAssumption
  <2> QED
    BY <2>1, OwningIs, RecoveringIs, GuessingIs DEF Guessing!StoreAssumption
<1>2. Owning!Spec => [](/\ Owning!TypeOK /\ Owning!RecoveryMatchesProofs
                        /\ Owning!Proofs!AttemptsAreCoherent)
  BY <1>1, Owning!RecordsAgree, PTL
<1>3. Recovering!Spec => [](/\ Recovering!RecoveryMatchesProofs
                            /\ Recovering!Proofs!AttemptsAreCoherent)
  BY <1>1, Recovering!RecordsAgree, PTL
<1>4. Guessing!Proofs!ProofsSpec => [](/\ Guessing!Proofs!ProofsTypeOK
                                       /\ Guessing!Proofs!AttemptsAreCoherent)
  BY <1>1, Guessing!StoreIsCoherent, Guessing!GuessesStayLimited, PTL
<1> DEFINE I == part = "identity"  R == part = "recovery"  P == part = "proofs"
<1>5. MCInit => /\ I \/ R \/ P
                /\ Owning!Init /\ Recovering!Init /\ Guessing!Proofs!ProofsInit
  BY IdentityStarts
<1>6. [MCNext]_allVars
        => /\ (I' <=> I) /\ (R' <=> R) /\ (P' <=> P)
           /\ I => [Owning!Next]_(Owning!vars)
           /\ R => [Recovering!Next]_(Recovering!vars)
           /\ P => [Guessing!Proofs!ProofsNext]_(Guessing!Proofs!proofVars)
  BY IdentitySteps
<1>7. /\ I \/ R \/ P
      /\ I => /\ Owning!TypeOK /\ Owning!RecoveryMatchesProofs
              /\ Owning!Proofs!AttemptsAreCoherent
      /\ R => Recovering!RecoveryMatchesProofs /\ Recovering!Proofs!AttemptsAreCoherent
      /\ P => Guessing!Proofs!ProofsTypeOK /\ Guessing!Proofs!AttemptsAreCoherent
      => RecordsMatchProofs
  BY OwningMeans, RecoveringMeans, GuessingMeans DEF RecordsMatchProofs
<1> HIDE DEF I, R, P
<1> QED
  BY <1>2, <1>3, <1>4, <1>5, <1>6, <1>7, PTL
     DEF MCSpec, Owning!Spec, Recovering!Spec, Guessing!Proofs!ProofsSpec

(* And no more guesses are recorded than the locks leave time for, however *)
(* often proofs are presented and on a clock that is stepped back and      *)
(* forth (recordRecoveryProofFailure).                                     *)
THEOREM GuessesKeepTheirLimit ==
  ASSUME CredentialIds \subseteq Nat \ {0},
         PolicyAssumption, Store!ProofsAssumption
  PROVE  MCSpec => []GuessesAreLimited
<1>1. Guessing!PolicyAssumption /\ Guessing!StoreAssumption
  <2>1. Guessing!PolicyAssumption
    BY DEF PolicyAssumption, Guessing!PolicyAssumption
  <2> QED
    BY <2>1, GuessingIs DEF Guessing!StoreAssumption
<1>2. Guessing!Proofs!ProofsSpec => []Guessing!Proofs!GuessesAreLimited
  BY <1>1, Guessing!GuessesStayLimited, PTL
<1> DEFINE P == part = "proofs"
<1>3. MCInit => Guessing!Proofs!ProofsInit
  BY IdentityStarts
<1>4. [MCNext]_allVars
        => (P' <=> P) /\ (P => [Guessing!Proofs!ProofsNext]_(Guessing!Proofs!proofVars))
  BY IdentitySteps
<1>5. (P => Guessing!Proofs!GuessesAreLimited) => GuessesAreLimited
  BY GuessingMeans DEF GuessesAreLimited
<1> HIDE DEF P
<1> QED
  BY <1>2, <1>3, <1>4, <1>5, PTL DEF MCSpec, Guessing!Proofs!ProofsSpec
-----------------------------------------------------------------------------
(***************************************************************************)
(* The Envelope workspace and a history by itself: MCDocumentWorkspace.    *)
(***************************************************************************)

(* The proofs about each part, with its constants.                         *)
Filing == INSTANCE DocumentProofs WITH AnyDocuments <- {}

Wording == INSTANCE DocumentProofs WITH
  AnyDocuments <- {},
  Envelopes <- {1}, Titles <- {1, 2}, Markdowns <- {1, 2}, Canonical <- <<1, 1>>,
  DemoDrafts <- <<[title |-> 1, recipient |-> 1, markdown |-> 1]>>,
  Sources <- [title : {2}, markdown : {2}], Files <- {}, Size <- <<>>,
  MaxAttachments <- 0, MaxAttachmentTotalBytes <- 0, MaxUndoSteps <- 2,
  MaxVersions <- 2, MaxNext <- 4, MaxRequests <- 1, MaxSessions <- 1

Importing == INSTANCE DocumentProofs WITH
  AnyDocuments <- {},
  Titles <- {1}, Canonical <- <<1>>, Recipients <- {1, 2},
  Sources <- [title : {1}, markdown : {1}], Files <- {}, Size <- <<>>,
  MaxAttachments <- 0, MaxAttachmentTotalBytes <- 0, MaxSessions <- 2

Keeping == INSTANCE DocumentProofs WITH
  AnyDocuments <- {"a", "b", "c"}, MaxVersions <- 4, MaxNext <- 9

LEMMA FilingIs ==
  /\ WorkspaceInit <=> Filing!WorkspaceInit
  /\ WorkspaceNext <=> Filing!WorkspaceNext
  /\ workspaceVars = Filing!workspaceVars
  /\ WorkspaceAssumption => Filing!WorkspaceAssumption
  /\ H!HistoryAssumption => Filing!H!HistoryAssumption
<1>1. WorkspaceInit <=> Filing!WorkspaceInit
  BY
   DEF WorkspaceInit, Filing!WorkspaceInit, DemoEnvelopes, Filing!DemoEnvelopes,
       NoEdits, Filing!NoEdits, NoReviews, Filing!NoReviews,
       NoVersions, Filing!NoVersions, None, Filing!None,
       Baseline, Filing!Baseline, H!EmptyHistory,
       Filing!H!EmptyHistory
<1>2. WorkspaceNext <=> Filing!WorkspaceNext
  BY ZenonT(60)
   DEF WorkspaceNext, Filing!WorkspaceNext, ApprovePendingAttachments,
       Filing!ApprovePendingAttachments, BeginFileOperation,
       Filing!BeginFileOperation, BeginImportApproval,
       Filing!BeginImportApproval, DiscardPendingAttachments,
       Filing!DiscardPendingAttachments, DiscardPendingImport,
       Filing!DiscardPendingImport, Edit, Filing!Edit,
       EndSession, Filing!EndSession, OpenEnvelope,
       Filing!OpenEnvelope, RestartLocalRehearsal,
       Filing!RestartLocalRehearsal, SelectEnvelope, Filing!SelectEnvelope,
       Settle, Filing!Settle, Changeable, Filing!Changeable,
       None, Filing!None, StillFit, Filing!StillFit,
       UpdateEnvelope, Filing!UpdateEnvelope,
       CanBeginFileOperation, Filing!CanBeginFileOperation,
       content, Filing!content, CancelDocumentRestore,
       Filing!CancelDocumentRestore, ConfirmDocumentRestore,
       Filing!ConfirmDocumentRestore, Drafts, Filing!Drafts,
       EditDraft, Filing!EditDraft, RedoEdit, Filing!RedoEdit,
       RemoveAttachment, Filing!RemoveAttachment,
       RestoreImportedSource, Filing!RestoreImportedSource,
       ReviewDocumentRestore, Filing!ReviewDocumentRestore,
       SaveDocumentVersion, Filing!SaveDocumentVersion,
       UndoEdit, Filing!UndoEdit, CancelFileWork,
       Filing!CancelFileWork, NoReviews, Filing!NoReviews,
       drafts, Filing!drafts, reviews, Filing!reviews,
       DemoEnvelopes, Filing!DemoEnvelopes, NoEdits,
       Filing!NoEdits, NoVersions, Filing!NoVersions,
       AttachmentsPrepared, Filing!AttachmentsPrepared,
       Candidates, Filing!Candidates, ImportApproved,
       Filing!ImportApproved, ImportPrepared, Filing!ImportPrepared,
       ImportRefused, Filing!ImportRefused,
       PreparationDropped, Filing!PreparationDropped,
       PreparationFailed, Filing!PreparationFailed,
       WithinLimits, Filing!WithinLimits, Record,
       Filing!Record, RestoreIsCurrent, Filing!RestoreIsCurrent,
       Document, Filing!Document, HasDocument,
       Filing!HasDocument, Baseline, Filing!Baseline, Finish,
       Filing!Finish, IsCurrentFileOperation,
       Filing!IsCurrentFileOperation, Resumed, Filing!Resumed,
       ApprovalStands, Filing!ApprovalStands,
       ImportedEnvelope, Filing!ImportedEnvelope,
       FailedOperation, Filing!FailedOperation, Bytes,
       Filing!Bytes, Distinct, Filing!Distinct, FilesOf,
       Filing!FilesOf, LastOf, Filing!LastOf, EndedFor,
       Filing!EndedFor, H!CanRestore, Filing!H!CanRestore,
       H!CanSave, Filing!H!CanSave, H!EmptyHistory,
       Filing!H!EmptyHistory, H!Numbers, Filing!H!Numbers,
       H!RestoredHistory, Filing!H!RestoredHistory,
       H!SaveVersion, Filing!H!SaveVersion, H!VersionOf,
       Filing!H!VersionOf, H!Without, Filing!H!Without,
       H!MatchesLatest, Filing!H!MatchesLatest,
       H!PreserveRestoreTarget, Filing!H!PreserveRestoreTarget,
       H!Latest, Filing!H!Latest, H!Position,
       Filing!H!Position, H!Sorted, Filing!H!Sorted,
       H!Bijection, Filing!H!Bijection, H!Injection,
       Filing!H!Injection, H!Surjection, Filing!H!Surjection,
       H!IsInjective, Filing!H!IsInjective
<1>3. workspaceVars = Filing!workspaceVars
  BY
   DEF workspaceVars, Filing!workspaceVars, content, Filing!content,
       reviews, Filing!reviews, drafts, Filing!drafts
<1>4. WorkspaceAssumption => Filing!WorkspaceAssumption
  BY DEF WorkspaceAssumption, Filing!WorkspaceAssumption
<1>5. H!HistoryAssumption => Filing!H!HistoryAssumption
  BY DEF H!HistoryAssumption, Filing!H!HistoryAssumption
<1> QED
  BY <1>1, <1>2, <1>3, <1>4, <1>5

LEMMA WordingIs ==
  /\ Writing!WorkspaceInit <=> Wording!WorkspaceInit
  /\ Writing!WorkspaceNext <=> Wording!WorkspaceNext
  /\ Writing!workspaceVars = Wording!workspaceVars
  /\ Writing!WorkspaceAssumption => Wording!WorkspaceAssumption
  /\ Writing!H!HistoryAssumption => Wording!H!HistoryAssumption
<1>1. Writing!WorkspaceInit <=> Wording!WorkspaceInit
  BY
   DEF Writing!WorkspaceInit, Wording!WorkspaceInit, Writing!DemoEnvelopes,
       Wording!DemoEnvelopes, Writing!NoEdits, Wording!NoEdits,
       Writing!NoReviews, Wording!NoReviews,
       Writing!NoVersions, Wording!NoVersions, Writing!None,
       Wording!None, Writing!Baseline, Wording!Baseline,
       Writing!H!EmptyHistory, Wording!H!EmptyHistory
<1>2. Writing!WorkspaceNext <=> Wording!WorkspaceNext
  BY
   DEF Writing!WorkspaceNext, Wording!WorkspaceNext,
       Writing!ApprovePendingAttachments,
       Wording!ApprovePendingAttachments, Writing!BeginFileOperation,
       Wording!BeginFileOperation, Writing!BeginImportApproval,
       Wording!BeginImportApproval, Writing!DiscardPendingAttachments,
       Wording!DiscardPendingAttachments, Writing!DiscardPendingImport,
       Wording!DiscardPendingImport, Writing!Edit, Wording!Edit,
       Writing!EndSession, Wording!EndSession,
       Writing!OpenEnvelope, Wording!OpenEnvelope,
       Writing!RestartLocalRehearsal, Wording!RestartLocalRehearsal,
       Writing!SelectEnvelope, Wording!SelectEnvelope,
       Writing!Settle, Wording!Settle, Writing!Changeable,
       Wording!Changeable, Writing!None, Wording!None,
       Writing!StillFit, Wording!StillFit,
       Writing!UpdateEnvelope, Wording!UpdateEnvelope,
       Writing!CanBeginFileOperation, Wording!CanBeginFileOperation,
       Writing!content, Wording!content,
       Writing!CancelDocumentRestore, Wording!CancelDocumentRestore,
       Writing!ConfirmDocumentRestore, Wording!ConfirmDocumentRestore,
       Writing!Drafts, Wording!Drafts, Writing!EditDraft,
       Wording!EditDraft, Writing!RedoEdit, Wording!RedoEdit,
       Writing!RemoveAttachment, Wording!RemoveAttachment,
       Writing!RestoreImportedSource, Wording!RestoreImportedSource,
       Writing!ReviewDocumentRestore, Wording!ReviewDocumentRestore,
       Writing!SaveDocumentVersion, Wording!SaveDocumentVersion,
       Writing!UndoEdit, Wording!UndoEdit,
       Writing!CancelFileWork, Wording!CancelFileWork,
       Writing!NoReviews, Wording!NoReviews, Writing!drafts,
       Wording!drafts, Writing!reviews, Wording!reviews,
       Writing!DemoEnvelopes, Wording!DemoEnvelopes,
       Writing!NoEdits, Wording!NoEdits, Writing!NoVersions,
       Wording!NoVersions, Writing!AttachmentsPrepared,
       Wording!AttachmentsPrepared, Writing!Candidates, Wording!Candidates,
       Writing!ImportApproved, Wording!ImportApproved,
       Writing!ImportPrepared, Wording!ImportPrepared,
       Writing!ImportRefused, Wording!ImportRefused,
       Writing!PreparationDropped, Wording!PreparationDropped,
       Writing!PreparationFailed, Wording!PreparationFailed,
       Writing!WithinLimits, Wording!WithinLimits,
       Writing!Record, Wording!Record,
       Writing!RestoreIsCurrent, Wording!RestoreIsCurrent,
       Writing!Document, Wording!Document,
       Writing!HasDocument, Wording!HasDocument,
       Writing!Baseline, Wording!Baseline, Writing!Finish,
       Wording!Finish, Writing!IsCurrentFileOperation,
       Wording!IsCurrentFileOperation, Writing!Resumed, Wording!Resumed,
       Writing!ApprovalStands, Wording!ApprovalStands,
       Writing!ImportedEnvelope, Wording!ImportedEnvelope,
       Writing!FailedOperation, Wording!FailedOperation,
       Writing!Bytes, Wording!Bytes, Writing!Distinct,
       Wording!Distinct, Writing!FilesOf, Wording!FilesOf,
       Writing!LastOf, Wording!LastOf, Writing!EndedFor,
       Wording!EndedFor, Writing!H!CanRestore, Wording!H!CanRestore,
       Writing!H!CanSave, Wording!H!CanSave,
       Writing!H!EmptyHistory, Wording!H!EmptyHistory,
       Writing!H!Numbers, Wording!H!Numbers,
       Writing!H!RestoredHistory, Wording!H!RestoredHistory,
       Writing!H!SaveVersion, Wording!H!SaveVersion,
       Writing!H!VersionOf, Wording!H!VersionOf,
       Writing!H!Without, Wording!H!Without,
       Writing!H!MatchesLatest, Wording!H!MatchesLatest,
       Writing!H!PreserveRestoreTarget, Wording!H!PreserveRestoreTarget,
       Writing!H!Latest, Wording!H!Latest, Writing!H!Position,
       Wording!H!Position, Writing!H!Sorted, Wording!H!Sorted,
       Writing!H!Bijection, Wording!H!Bijection,
       Writing!H!Injection, Wording!H!Injection,
       Writing!H!Surjection, Wording!H!Surjection,
       Writing!H!IsInjective, Wording!H!IsInjective
<1>3. Writing!workspaceVars = Wording!workspaceVars
  BY
   DEF Writing!workspaceVars, Wording!workspaceVars, Writing!content,
       Wording!content, Writing!reviews, Wording!reviews,
       Writing!drafts, Wording!drafts
<1>4. Writing!WorkspaceAssumption => Wording!WorkspaceAssumption
  BY DEF Writing!WorkspaceAssumption, Wording!WorkspaceAssumption
<1>5. Writing!H!HistoryAssumption => Wording!H!HistoryAssumption
  BY DEF Writing!H!HistoryAssumption, Wording!H!HistoryAssumption
<1> QED
  BY <1>1, <1>2, <1>3, <1>4, <1>5

LEMMA ImportingIs ==
  /\ Imports!WorkspaceInit <=> Importing!WorkspaceInit
  /\ Imports!WorkspaceNext <=> Importing!WorkspaceNext
  /\ Imports!workspaceVars = Importing!workspaceVars
  /\ Imports!WorkspaceAssumption => Importing!WorkspaceAssumption
  /\ Imports!H!HistoryAssumption => Importing!H!HistoryAssumption
<1>1. Imports!WorkspaceInit <=> Importing!WorkspaceInit
  BY
   DEF Imports!WorkspaceInit, Importing!WorkspaceInit, Imports!DemoEnvelopes,
       Importing!DemoEnvelopes, Imports!NoEdits, Importing!NoEdits,
       Imports!NoReviews, Importing!NoReviews,
       Imports!NoVersions, Importing!NoVersions, Imports!None,
       Importing!None, Imports!Baseline, Importing!Baseline,
       Imports!H!EmptyHistory, Importing!H!EmptyHistory
<1>2. Imports!WorkspaceNext <=> Importing!WorkspaceNext
  BY ZenonT(60)
   DEF Imports!WorkspaceNext, Importing!WorkspaceNext,
       Imports!ApprovePendingAttachments,
       Importing!ApprovePendingAttachments, Imports!BeginFileOperation,
       Importing!BeginFileOperation, Imports!BeginImportApproval,
       Importing!BeginImportApproval, Imports!DiscardPendingAttachments,
       Importing!DiscardPendingAttachments, Imports!DiscardPendingImport,
       Importing!DiscardPendingImport, Imports!Edit, Importing!Edit,
       Imports!EndSession, Importing!EndSession,
       Imports!OpenEnvelope, Importing!OpenEnvelope,
       Imports!RestartLocalRehearsal, Importing!RestartLocalRehearsal,
       Imports!SelectEnvelope, Importing!SelectEnvelope,
       Imports!Settle, Importing!Settle, Imports!Changeable,
       Importing!Changeable, Imports!None, Importing!None,
       Imports!StillFit, Importing!StillFit,
       Imports!UpdateEnvelope, Importing!UpdateEnvelope,
       Imports!CanBeginFileOperation, Importing!CanBeginFileOperation,
       Imports!content, Importing!content,
       Imports!CancelDocumentRestore, Importing!CancelDocumentRestore,
       Imports!ConfirmDocumentRestore, Importing!ConfirmDocumentRestore,
       Imports!Drafts, Importing!Drafts, Imports!EditDraft,
       Importing!EditDraft, Imports!RedoEdit, Importing!RedoEdit,
       Imports!RemoveAttachment, Importing!RemoveAttachment,
       Imports!RestoreImportedSource, Importing!RestoreImportedSource,
       Imports!ReviewDocumentRestore, Importing!ReviewDocumentRestore,
       Imports!SaveDocumentVersion, Importing!SaveDocumentVersion,
       Imports!UndoEdit, Importing!UndoEdit,
       Imports!CancelFileWork, Importing!CancelFileWork,
       Imports!NoReviews, Importing!NoReviews, Imports!drafts,
       Importing!drafts, Imports!reviews, Importing!reviews,
       Imports!DemoEnvelopes, Importing!DemoEnvelopes,
       Imports!NoEdits, Importing!NoEdits, Imports!NoVersions,
       Importing!NoVersions, Imports!AttachmentsPrepared,
       Importing!AttachmentsPrepared, Imports!Candidates,
       Importing!Candidates, Imports!ImportApproved,
       Importing!ImportApproved, Imports!ImportPrepared,
       Importing!ImportPrepared, Imports!ImportRefused,
       Importing!ImportRefused, Imports!PreparationDropped,
       Importing!PreparationDropped, Imports!PreparationFailed,
       Importing!PreparationFailed, Imports!WithinLimits,
       Importing!WithinLimits, Imports!Record, Importing!Record,
       Imports!RestoreIsCurrent, Importing!RestoreIsCurrent,
       Imports!Document, Importing!Document,
       Imports!HasDocument, Importing!HasDocument,
       Imports!Baseline, Importing!Baseline, Imports!Finish,
       Importing!Finish, Imports!IsCurrentFileOperation,
       Importing!IsCurrentFileOperation, Imports!Resumed,
       Importing!Resumed, Imports!ApprovalStands, Importing!ApprovalStands,
       Imports!ImportedEnvelope, Importing!ImportedEnvelope,
       Imports!FailedOperation, Importing!FailedOperation,
       Imports!Bytes, Importing!Bytes, Imports!Distinct,
       Importing!Distinct, Imports!FilesOf, Importing!FilesOf,
       Imports!LastOf, Importing!LastOf, Imports!EndedFor,
       Importing!EndedFor, Imports!H!CanRestore, Importing!H!CanRestore,
       Imports!H!CanSave, Importing!H!CanSave,
       Imports!H!EmptyHistory, Importing!H!EmptyHistory,
       Imports!H!Numbers, Importing!H!Numbers,
       Imports!H!RestoredHistory, Importing!H!RestoredHistory,
       Imports!H!SaveVersion, Importing!H!SaveVersion,
       Imports!H!VersionOf, Importing!H!VersionOf,
       Imports!H!Without, Importing!H!Without,
       Imports!H!MatchesLatest, Importing!H!MatchesLatest,
       Imports!H!PreserveRestoreTarget, Importing!H!PreserveRestoreTarget,
       Imports!H!Latest, Importing!H!Latest,
       Imports!H!Position, Importing!H!Position,
       Imports!H!Sorted, Importing!H!Sorted,
       Imports!H!Bijection, Importing!H!Bijection,
       Imports!H!Injection, Importing!H!Injection,
       Imports!H!Surjection, Importing!H!Surjection,
       Imports!H!IsInjective, Importing!H!IsInjective
<1>3. Imports!workspaceVars = Importing!workspaceVars
  BY
   DEF Imports!workspaceVars, Importing!workspaceVars, Imports!content,
       Importing!content, Imports!reviews, Importing!reviews,
       Imports!drafts, Importing!drafts
<1>4. Imports!WorkspaceAssumption => Importing!WorkspaceAssumption
  BY DEF Imports!WorkspaceAssumption, Importing!WorkspaceAssumption
<1>5. Imports!H!HistoryAssumption => Importing!H!HistoryAssumption
  BY DEF Imports!H!HistoryAssumption, Importing!H!HistoryAssumption
<1> QED
  BY <1>1, <1>2, <1>3, <1>4, <1>5

LEMMA KeepingIs ==
  /\ Deep!Init <=> Keeping!Alone!Init
  /\ Deep!Next <=> Keeping!Alone!Next
  /\ Deep!vars = Keeping!Alone!vars
  /\ Deep!TypeOK <=> Keeping!Alone!TypeOK
  /\ Deep!HistoryIsValid <=> Keeping!Alone!HistoryIsValid
  /\ Deep!RestoreKeepsBoth <=> Keeping!Alone!RestoreKeepsBoth
  /\ Deep!NumbersAreStable <=> Keeping!Alone!NumbersAreStable
  /\ Deep!HistoryAssumption => Keeping!H!HistoryAssumption
  /\ WorkspaceAssumption => Keeping!WorkspaceAssumption
BY
   DEF Deep!HistoryAssumption, Keeping!H!HistoryAssumption,
       WorkspaceAssumption, Keeping!WorkspaceAssumption,
       Deep!Init, Keeping!Alone!Init, Deep!Next,
       Keeping!Alone!Next, Deep!vars, Keeping!Alone!vars,
       Deep!TypeOK, Keeping!Alone!TypeOK, Deep!HistoryIsValid,
       Keeping!Alone!HistoryIsValid, Deep!RestoreKeepsBoth,
       Keeping!Alone!RestoreKeepsBoth, Deep!NumbersAreStable,
       Keeping!Alone!NumbersAreStable, Deep!EmptyHistory,
       Keeping!Alone!EmptyHistory, Deep!Edit, Keeping!Alone!Edit,
       Deep!Numbers, Keeping!Alone!Numbers, Deep!Restore,
       Keeping!Alone!Restore, Deep!Save, Keeping!Alone!Save,
       Deep!Versions, Keeping!Alone!Versions,
       Deep!ValidHistory, Keeping!Alone!ValidHistory,
       Deep!CanRestore, Keeping!Alone!CanRestore,
       Deep!RestoredHistory, Keeping!Alone!RestoredHistory,
       Deep!VersionOf, Keeping!Alone!VersionOf, Deep!CanSave,
       Keeping!Alone!CanSave, Deep!SaveVersion, Keeping!Alone!SaveVersion,
       Deep!PreserveRestoreTarget, Keeping!Alone!PreserveRestoreTarget,
       Deep!Position, Keeping!Alone!Position,
       Deep!MatchesLatest, Keeping!Alone!MatchesLatest,
       Deep!Latest, Keeping!Alone!Latest, Deep!Sorted,
       Keeping!Alone!Sorted, Deep!Without, Keeping!Alone!Without,
       Deep!Bijection, Keeping!Alone!Bijection,
       Deep!Injection, Keeping!Alone!Injection,
       Deep!Surjection, Keeping!Alone!Surjection,
       Deep!IsInjective, Keeping!Alone!IsInjective

LEMMA PropertiesAre ==
  /\ WorkspaceTypeOK <=> Filing!WorkspaceTypeOK
  /\ AttachmentsAreBounded <=> Filing!AttachmentsAreBounded
  /\ WorkIsProtected <=> Filing!WorkIsProtected
  /\ WorkIsProtected <=> Importing!WorkIsProtected
  /\ Imports!WorkspaceTypeOK <=> Importing!WorkspaceTypeOK
  /\ Writing!WorkspaceTypeOK <=> Wording!WorkspaceTypeOK
  /\ Writing!EditsAreBounded <=> Wording!EditsAreBounded
  /\ Writing!WorkIsProtected <=> Wording!WorkIsProtected
<1>1. WorkspaceTypeOK <=> Filing!WorkspaceTypeOK
  BY
   DEF WorkspaceTypeOK, Filing!WorkspaceTypeOK, None, Filing!None,
       Snapshots, Filing!Snapshots, Drafts, Filing!Drafts
<1>2. AttachmentsAreBounded <=> Filing!AttachmentsAreBounded
  BY
   DEF AttachmentsAreBounded, Filing!AttachmentsAreBounded,
       Bytes, Filing!Bytes, Distinct, Filing!Distinct
<1>3. /\ WorkIsProtected <=> Filing!WorkIsProtected
      /\ WorkIsProtected <=> Importing!WorkIsProtected
  BY
   DEF WorkIsProtected, Filing!WorkIsProtected, Importing!WorkIsProtected,
       DemoEnvelopes, Filing!DemoEnvelopes, Importing!DemoEnvelopes,
       LossReasons, Filing!LossReasons, Importing!LossReasons,
       NoEdits, Filing!NoEdits, Importing!NoEdits, NoVersions,
       Filing!NoVersions, Importing!NoVersions, None, Filing!None,
       Importing!None, Baseline, Filing!Baseline, Importing!Baseline,
       H!EmptyHistory, Filing!H!EmptyHistory, Importing!H!EmptyHistory
<1>4. Imports!WorkspaceTypeOK <=> Importing!WorkspaceTypeOK
  BY
   DEF Imports!WorkspaceTypeOK, Importing!WorkspaceTypeOK, Imports!None,
       Importing!None, Imports!Snapshots, Importing!Snapshots,
       Imports!Drafts, Importing!Drafts
<1>5. /\ Writing!WorkspaceTypeOK <=> Wording!WorkspaceTypeOK
      /\ Writing!EditsAreBounded <=> Wording!EditsAreBounded
  BY
   DEF Writing!WorkspaceTypeOK, Wording!WorkspaceTypeOK,
       Writing!EditsAreBounded, Wording!EditsAreBounded,
       Writing!None, Wording!None, Writing!Snapshots,
       Wording!Snapshots, Writing!Drafts, Wording!Drafts
<1>6. Writing!WorkIsProtected <=> Wording!WorkIsProtected
  BY
   DEF Writing!WorkIsProtected, Wording!WorkIsProtected,
       Writing!DemoEnvelopes, Wording!DemoEnvelopes,
       Writing!LossReasons, Wording!LossReasons,
       Writing!NoEdits, Wording!NoEdits, Writing!NoVersions,
       Wording!NoVersions, Writing!None, Wording!None,
       Writing!Baseline, Wording!Baseline,
       Writing!H!EmptyHistory, Wording!H!EmptyHistory
<1> QED
  BY <1>1, <1>2, <1>3, <1>4, <1>5, <1>6

Filed == moving = "files"
Worded == moving = "writing"
Imported == moving = "imports"
Kept == moving = "history"

LEMMA WorkspaceStarts ==
  ASSUME DocumentsInit
  PROVE  /\ Filed => Filing!WorkspaceInit
         /\ Worded => Wording!WorkspaceInit
         /\ Imported => Importing!WorkspaceInit
         /\ Kept => Keeping!Alone!Init
         /\ Filed \/ Worded \/ Imported \/ Kept
<1>1. Filing!WorkspaceInit <=> Importing!WorkspaceInit
  BY
   DEF Filing!WorkspaceInit, Importing!WorkspaceInit, Filing!DemoEnvelopes, Importing!DemoEnvelopes,
       Filing!NoEdits, Importing!NoEdits, Filing!NoReviews, Importing!NoReviews,
       Filing!NoVersions, Importing!NoVersions, Filing!None, Importing!None,
       Filing!Baseline, Importing!Baseline, Filing!H!EmptyHistory,
       Importing!H!EmptyHistory
<1> QED
  BY <1>1, FilingIs, WordingIs, KeepingIs DEF DocumentsInit, Filed, Worded, Imported, Kept

LEMMA WorkspaceMoves ==
  ASSUME [DocumentsNext]_documentsVars
  PROVE  /\ Filed' <=> Filed
         /\ Worded' <=> Worded
         /\ Imported' <=> Imported
         /\ Kept' <=> Kept
         /\ Filed => [Filing!WorkspaceNext]_(Filing!workspaceVars)
         /\ Worded => [Wording!WorkspaceNext]_(Wording!workspaceVars)
         /\ Imported => [Importing!WorkspaceNext]_(Importing!workspaceVars)
         /\ Kept => [Keeping!Alone!Next]_(Keeping!Alone!vars)
         /\ Kept => UNCHANGED workspaceVars
<1>1. CASE DocumentsNext
  <2>1. moving' = moving
    BY <1>1 DEF DocumentsNext
  <2>2. /\ Filed => WorkspaceNext
        /\ Worded => Writing!WorkspaceNext
        /\ Imported => Imports!WorkspaceNext
        /\ Kept => Deep!Next /\ UNCHANGED workspaceVars
    BY <1>1 DEF DocumentsNext, Filed, Worded, Imported, Kept
  <2> QED
    BY <2>1, <2>2, FilingIs, WordingIs, ImportingIs, KeepingIs
       DEF Filed, Worded, Imported, Kept
<1>2. CASE UNCHANGED documentsVars
  <2>1. /\ moving' = moving /\ UNCHANGED workspaceVars /\ current' = current
        /\ history' = history
    BY <1>2 DEF documentsVars, historyVars
  <2>2. UNCHANGED Filing!workspaceVars /\ UNCHANGED Wording!workspaceVars /\ UNCHANGED Importing!workspaceVars
    BY <2>1
   DEF workspaceVars, Filing!workspaceVars, Wording!workspaceVars, Importing!workspaceVars,
       content, Filing!content, Wording!content, Importing!content,
       reviews, Filing!reviews, Wording!reviews, Importing!reviews,
       drafts, Filing!drafts, Wording!drafts, Importing!drafts
  <2>3. UNCHANGED Keeping!Alone!vars
    BY <2>1 DEF Keeping!Alone!vars
  <2> QED
    BY <2>1, <2>2, <2>3 DEF Filed, Worded, Imported, Kept
<1> QED
  BY <1>1, <1>2

LEMMA WorkspaceHypotheses ==
  ASSUME WorkspaceAssumption, Writing!WorkspaceAssumption,
         Imports!WorkspaceAssumption, H!HistoryAssumption,
         Writing!H!HistoryAssumption, Deep!HistoryAssumption
  PROVE  /\ Filing!WorkspaceAssumption /\ Filing!H!HistoryAssumption
         /\ Wording!WorkspaceAssumption /\ Wording!H!HistoryAssumption
         /\ Importing!WorkspaceAssumption /\ Importing!H!HistoryAssumption
         /\ Keeping!WorkspaceAssumption /\ Keeping!H!HistoryAssumption
<1>1. Filing!H!HistoryAssumption => Importing!H!HistoryAssumption
  BY DEF Filing!H!HistoryAssumption, Importing!H!HistoryAssumption
<1> QED
  BY <1>1, FilingIs, WordingIs, ImportingIs, KeepingIs

(* The invariant of each part.                                             *)
PartsInv ==
  /\ Filed => Filing!Inv
  /\ Worded => Wording!Inv
  /\ Imported => Importing!Inv
  /\ Filed \/ Worded \/ Imported \/ Kept

LEMMA PartsHold ==
  ASSUME WorkspaceAssumption, Writing!WorkspaceAssumption,
         Imports!WorkspaceAssumption, H!HistoryAssumption,
         Writing!H!HistoryAssumption, Deep!HistoryAssumption
  PROVE  DocumentsFairSpec => []PartsInv
<1>0. /\ Filing!WorkspaceAssumption /\ Filing!H!HistoryAssumption
      /\ Wording!WorkspaceAssumption /\ Wording!H!HistoryAssumption
      /\ Importing!WorkspaceAssumption /\ Importing!H!HistoryAssumption
  BY WorkspaceHypotheses
<1>1. DocumentsInit => PartsInv
  BY <1>0, WorkspaceStarts, Filing!InitInv, Wording!InitInv, Importing!InitInv DEF PartsInv
<1>2. PartsInv /\ [DocumentsNext]_documentsVars => PartsInv'
  <2> SUFFICES ASSUME PartsInv, [DocumentsNext]_documentsVars
               PROVE  PartsInv'
    OBVIOUS
  <2>1. Filed' => Filing!Inv'
    BY <1>0, WorkspaceMoves, Filing!StepKeepsInv DEF PartsInv
  <2>2. Worded' => Wording!Inv'
    BY <1>0, WorkspaceMoves, Wording!StepKeepsInv DEF PartsInv
  <2>3. Imported' => Importing!Inv'
    BY <1>0, WorkspaceMoves, Importing!StepKeepsInv DEF PartsInv
  <2>4. (Filed \/ Worded \/ Imported \/ Kept)'
    BY WorkspaceMoves DEF PartsInv
  <2> QED
    BY <2>1, <2>2, <2>3, <2>4 DEF PartsInv
<1> QED
  BY <1>1, <1>2, PTL DEF DocumentsFairSpec

(* What TLC checks of a workspace with files, of one with words, of one    *)
(* with imports and of a history by itself is so: each keeps its type and  *)
(* its limits, and no history becomes one that the next call would refuse  *)
(* (DocumentWorkspace.tsx; validateHistory).                               *)
THEOREM WorkspacesStaySound ==
  ASSUME WorkspaceAssumption, Writing!WorkspaceAssumption,
         Imports!WorkspaceAssumption, H!HistoryAssumption,
         Writing!H!HistoryAssumption, Deep!HistoryAssumption
  PROVE  DocumentsFairSpec => []WorkspaceIsSound
<1>0. /\ Filing!WorkspaceAssumption /\ Filing!H!HistoryAssumption
      /\ Wording!WorkspaceAssumption /\ Wording!H!HistoryAssumption
      /\ Importing!WorkspaceAssumption /\ Importing!H!HistoryAssumption
      /\ Keeping!WorkspaceAssumption /\ Keeping!H!HistoryAssumption
  BY WorkspaceHypotheses
<1>1. Keeping!Alone!Spec => [](Keeping!Alone!TypeOK /\ Keeping!Alone!HistoryIsValid)
  BY <1>0, Keeping!HistoriesStayValid, PTL
<1>2. DocumentsFairSpec => []PartsInv
  BY PartsHold
<1>3. DocumentsInit => (Kept => Keeping!Alone!Init)
  BY WorkspaceStarts
<1>4. [DocumentsNext]_documentsVars
        => (Kept' <=> Kept) /\ (Kept => [Keeping!Alone!Next]_(Keeping!Alone!vars))
  BY WorkspaceMoves
<1>5. PartsInv /\ (Kept => Keeping!Alone!TypeOK /\ Keeping!Alone!HistoryIsValid)
        => WorkspaceIsSound
  <2> SUFFICES ASSUME PartsInv, Kept => Keeping!Alone!TypeOK /\ Keeping!Alone!HistoryIsValid
               PROVE  WorkspaceIsSound
    OBVIOUS
  <2>1. Filed => Filing!WorkspaceTypeOK /\ Filing!AttachmentsAreBounded /\ Filing!WorkIsProtected
    BY <1>0, Filing!InvGivesType, Filing!InvBoundsAttachments, Filing!InvProtectsWork
       DEF PartsInv
  <2>2. Worded => Wording!WorkspaceTypeOK /\ Wording!EditsAreBounded /\ Wording!WorkIsProtected
    BY <1>0, Wording!InvGivesType, Wording!InvProtectsWork
       DEF PartsInv, Wording!Inv, Wording!EnvelopesInv
  <2>3. Imported => Importing!WorkspaceTypeOK /\ Importing!WorkIsProtected
    BY <1>0, Importing!InvGivesType, Importing!InvProtectsWork DEF PartsInv
  <2> QED
    BY <2>1, <2>2, <2>3, PropertiesAre, KeepingIs
       DEF WorkspaceIsSound, Filed, Worded, Imported, Kept
<1> HIDE DEF Kept, PartsInv
<1> QED
  BY <1>1, <1>2, <1>3, <1>4, <1>5, PTL DEF DocumentsFairSpec, Keeping!Alone!Spec
LEMMA StepsAre ==
  /\ Importing!Undoable <=> Filing!Undoable
  /\ Wording!Undoable <=> Filing!Undoable
  /\ Importing!FilesStep <=> Filing!FilesStep
  /\ Wording!FilesStep <=> Filing!FilesStep
  /\ UNCHANGED workspaceVars => Filing!FilesStep /\ Filing!Undoable
<1>1. /\ Importing!Undoable <=> Filing!Undoable
      /\ Wording!Undoable <=> Filing!Undoable
  BY DEF Filing!Undoable, Importing!Undoable, Wording!Undoable
<1>2. /\ Importing!FilesStep <=> Filing!FilesStep
      /\ Wording!FilesStep <=> Filing!FilesStep
  BY
   DEF Filing!ReviewsAreDecided, Importing!ReviewsAreDecided, Wording!ReviewsAreDecided,
       Filing!ImportsWereReviewed, Importing!ImportsWereReviewed,
       Wording!ImportsWereReviewed, Filing!EndedRehearsalsStayEnded,
       Importing!EndedRehearsalsStayEnded, Wording!EndedRehearsalsStayEnded,
       Filing!None, Importing!None, Wording!None, Filing!content, Importing!content,
       Wording!content, Filing!reviews, Importing!reviews, Wording!reviews,
       Filing!drafts, Importing!drafts, Wording!drafts, Filing!FilesStep, Importing!FilesStep,
       Wording!FilesStep
<1>3. UNCHANGED workspaceVars => Filing!FilesStep /\ Filing!Undoable
  BY
   DEF Filing!ReviewsAreDecided, Filing!ImportsWereReviewed,
       Filing!EndedRehearsalsStayEnded, Filing!None, Filing!content, Filing!reviews,
       Filing!drafts, Filing!FilesStep,
       Filing!Undoable,
       workspaceVars, content, reviews,
       drafts
<1> QED
  BY <1>1, <1>2, <1>3

LEMMA WritingIsHistory ==
  ASSUME Writing!WorkspaceAssumption, Writing!H!HistoryAssumption,
         Wording!Inv, Wording!Inv', [Wording!WorkspaceNext]_(Wording!workspaceVars)
  PROVE  Writing!HistoryStep
<1>1. Wording!HistoryStep
  <2>1. revision \in 1..1 /\ revision' \in 1..1
    BY DEF Wording!Inv, Wording!SessionInv
  <2>2. revision' = revision
    BY <2>1
  <2> QED
    BY <2>2, WordingIs, Wording!StepIsHistory
<1>2. Writing!HistoryStep <=> Wording!HistoryStep
  BY
   DEF Writing!HistoryStep, Wording!HistoryStep,
       Writing!History!Next, Wording!History!Next,
       Writing!History!vars, Wording!History!vars,
       Writing!History!Edit, Wording!History!Edit,
       Writing!History!Numbers, Wording!History!Numbers,
       Writing!History!Restore, Wording!History!Restore,
       Writing!History!Save, Wording!History!Save,
       Writing!History!CanRestore, Wording!History!CanRestore,
       Writing!History!RestoredHistory, Wording!History!RestoredHistory,
       Writing!History!VersionOf, Wording!History!VersionOf,
       Writing!History!CanSave, Wording!History!CanSave,
       Writing!History!SaveVersion, Wording!History!SaveVersion,
       Writing!History!PreserveRestoreTarget,
       Wording!History!PreserveRestoreTarget, Writing!History!Position,
       Wording!History!Position, Writing!History!MatchesLatest,
       Wording!History!MatchesLatest, Writing!History!Latest,
       Wording!History!Latest, Writing!History!Sorted,
       Wording!History!Sorted, Writing!History!Without,
       Wording!History!Without, Writing!History!Bijection,
       Wording!History!Bijection, Writing!History!Injection,
       Wording!History!Injection, Writing!History!Surjection,
       Wording!History!Surjection, Writing!History!IsInjective,
       Wording!History!IsInjective, Writing!HasDocument,
       Wording!HasDocument, Writing!Document, Wording!Document,
       Writing!Documents, Wording!Documents
<1> QED
  BY <1>1, <1>2

LEMMA PartsStep ==
  ASSUME WorkspaceAssumption, Writing!WorkspaceAssumption,
         Imports!WorkspaceAssumption, H!HistoryAssumption,
         Writing!H!HistoryAssumption, Deep!HistoryAssumption
  PROVE  PartsInv /\ PartsInv' /\ [DocumentsNext]_documentsVars
           => /\ Filing!Undoable
              /\ Filing!FilesStep
              /\ Worded => Writing!HistoryStep
<1>0. /\ Filing!WorkspaceAssumption /\ Filing!H!HistoryAssumption
      /\ Wording!WorkspaceAssumption /\ Wording!H!HistoryAssumption
      /\ Importing!WorkspaceAssumption /\ Importing!H!HistoryAssumption
  BY WorkspaceHypotheses
<1> SUFFICES ASSUME PartsInv, PartsInv', [DocumentsNext]_documentsVars
             PROVE  /\ Filing!Undoable /\ Filing!FilesStep
                    /\ Worded => Writing!HistoryStep
  OBVIOUS
<1>1. CASE Filed
  <2>1. Filing!Inv /\ [Filing!WorkspaceNext]_(Filing!workspaceVars)
    BY <1>1, WorkspaceMoves DEF PartsInv
  <2>2. Filing!ContentStep /\ Filing!FilesStep
    BY <1>0, <2>1, Filing!StepMovesContent, Filing!StepIsReviewed
  <2>3. Filing!Undoable
    BY <1>0, <2>1, <2>2, Filing!ContentIsUndoable DEF Filing!Inv
  <2> QED
    BY <1>1, <2>2, <2>3 DEF Filed, Worded
<1>2. CASE Worded
  <2>1. Wording!Inv /\ Wording!Inv' /\ [Wording!WorkspaceNext]_(Wording!workspaceVars)
    BY <1>2, WorkspaceMoves DEF PartsInv
  <2>2. Wording!ContentStep /\ Wording!FilesStep
    BY <1>0, <2>1, Wording!StepMovesContent, Wording!StepIsReviewed
  <2>3. Wording!Undoable
    BY <1>0, <2>1, <2>2, Wording!ContentIsUndoable DEF Wording!Inv
  <2> QED
    BY <2>1, <2>2, <2>3, StepsAre, WritingIsHistory
<1>3. CASE Imported
  <2>1. Importing!Inv /\ [Importing!WorkspaceNext]_(Importing!workspaceVars)
    BY <1>3, WorkspaceMoves DEF PartsInv
  <2>2. Importing!ContentStep /\ Importing!FilesStep
    BY <1>0, <2>1, Importing!StepMovesContent, Importing!StepIsReviewed
  <2>3. Importing!Undoable
    BY <1>0, <2>1, <2>2, Importing!ContentIsUndoable DEF Importing!Inv
  <2> QED
    BY <1>3, <2>2, <2>3, StepsAre DEF Imported, Worded
<1>4. CASE Kept
  BY <1>4, WorkspaceMoves, StepsAre DEF Kept, Worded
<1> QED
  BY <1>1, <1>2, <1>3, <1>4 DEF PartsInv

(* In every part, whatever replaces the content of an envelope can be      *)
(* taken back (recordEdit of DocumentWorkspace.tsx).                       *)
THEOREM EditsStayUndoable ==
  ASSUME WorkspaceAssumption, Writing!WorkspaceAssumption,
         Imports!WorkspaceAssumption, H!HistoryAssumption,
         Writing!H!HistoryAssumption, Deep!HistoryAssumption
  PROVE  DocumentsFairSpec => ChangesCanBeUndone
<1>1. PartsInv /\ PartsInv' /\ [DocumentsNext]_documentsVars
        => Filing!Undoable
  BY PartsStep
<1> HIDE DEF PartsInv
<1>2. DocumentsFairSpec => [][Filing!Undoable]_workspaceVars
  BY <1>1, PartsHold, PTL DEF DocumentsFairSpec
<1> QED
  BY <1>2, PTL DEF ChangesCanBeUndone, Filing!Undoable

(* In every part, what files bring is reviewed, decided and for one        *)
(* rehearsal only.                                                         *)
THEOREM ReviewsStayDecided ==
  ASSUME WorkspaceAssumption, Writing!WorkspaceAssumption,
         Imports!WorkspaceAssumption, H!HistoryAssumption,
         Writing!H!HistoryAssumption, Deep!HistoryAssumption
  PROVE  DocumentsFairSpec => FilesAreReviewed
<1> DEFINE Reviewed == /\ ReviewsAreDecided /\ ImportsWereReviewed
                       /\ EndedRehearsalsStayEnded
<1>1. PartsInv /\ PartsInv' /\ [DocumentsNext]_documentsVars
        => Filing!FilesStep
  BY PartsStep
<1>2. Filing!FilesStep => Reviewed
  BY
   DEF ReviewsAreDecided, Filing!ReviewsAreDecided,
       ImportsWereReviewed, Filing!ImportsWereReviewed,
       EndedRehearsalsStayEnded, Filing!EndedRehearsalsStayEnded,
       None, Filing!None, content, Filing!content,
       reviews, Filing!reviews, drafts, Filing!drafts, Filing!FilesStep
<1> HIDE DEF PartsInv, Reviewed
<1>3. DocumentsFairSpec => [][Reviewed]_workspaceVars
  BY <1>1, <1>2, PartsHold, PTL DEF DocumentsFairSpec
<1> QED
  BY <1>3, PTL DEF FilesAreReviewed, Reviewed

(* The versions of an envelope keep the promises of a history, although a  *)
(* restore is planned at its review, and a history keeps what a restore    *)
(* replaces and what it brings back (preserveRestoreTarget).               *)
THEOREM VersionsStayHistories ==
  ASSUME WorkspaceAssumption, Writing!WorkspaceAssumption,
         Imports!WorkspaceAssumption, H!HistoryAssumption,
         Writing!H!HistoryAssumption, Deep!HistoryAssumption
  PROVE  DocumentsFairSpec => HistoriesAreKept
<1> DEFINE A == Keeping!Alone!RestoreKeepsBoth /\ Keeping!Alone!NumbersAreStable
           B == Writing!HistoryStep
           C == /\ moving = "writing" => Writing!HistoryStep
                /\ moving = "history" => /\ Deep!RestoreKeepsBoth
                                        /\ Deep!NumbersAreStable
<1>1. Keeping!Alone!Spec => [][A]_(Keeping!Alone!vars)
  <2>1. Keeping!WorkspaceAssumption /\ Keeping!H!HistoryAssumption
    BY WorkspaceHypotheses
  <2> QED
    BY <2>1, Keeping!RestoresKeepBoth, PTL
<1>2. DocumentsFairSpec => []PartsInv
  BY PartsHold
<1>3. DocumentsInit => (Kept => Keeping!Alone!Init)
  BY WorkspaceStarts
<1>4. [DocumentsNext]_documentsVars
        => (Kept' <=> Kept) /\ (Kept => [Keeping!Alone!Next]_(Keeping!Alone!vars))
  BY WorkspaceMoves
<1>5. PartsInv /\ PartsInv' /\ [DocumentsNext]_documentsVars
        => (Worded => B)
  BY PartsStep
<1>6. [DocumentsNext]_documentsVars /\ Kept /\ UNCHANGED Keeping!Alone!vars
        => UNCHANGED documentsVars
  <2> SUFFICES ASSUME [DocumentsNext]_documentsVars, Kept,
                      UNCHANGED Keeping!Alone!vars
               PROVE  UNCHANGED documentsVars
    OBVIOUS
  <2>1. current' = current /\ history' = history
    BY DEF Keeping!Alone!vars
  <2>2. CASE DocumentsNext
    <3>1. moving' = moving
      BY <2>2 DEF DocumentsNext
    <3>2. UNCHANGED workspaceVars
      BY WorkspaceMoves
    <3> QED
      BY <2>1, <3>1, <3>2 DEF documentsVars, historyVars
  <2> QED
    BY <2>2
<1>7. (Worded => B) /\ (Kept => A) => C
  BY KeepingIs DEF Worded, Kept
<1> HIDE DEF Kept, Worded, PartsInv, A, B, C
<1>8. DocumentsFairSpec => [][C]_documentsVars
  BY <1>1, <1>2, <1>3, <1>4, <1>5, <1>6, <1>7, PTL
     DEF DocumentsFairSpec, Keeping!Alone!Spec
<1> QED
  BY <1>8, PTL DEF HistoriesAreKept, C
=============================================================================
