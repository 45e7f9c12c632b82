--------------------------- MODULE OwnerIdentity ----------------------------
(***************************************************************************)
(* The identity of one Owner (identity.ts) on its PostgreSQL repository:   *)
(* credentials, sessions, recovery and the verified channel.  Every call   *)
(* runs in one transaction behind one advisory lock, so each is an action; *)
(* it reads the API clock once, and the recovery proofs in the same        *)
(* transaction read the database clock (RecoveryProofs).                   *)
(*                                                                         *)
(* The proofs a caller offers for a sign-in, a registration or a channel   *)
(* are taken to be good; a bad one makes the call fail and nothing is      *)
(* written.  Bad recovery proofs are different: their failure is recorded. *)
(***************************************************************************)
EXTENDS Integers, FiniteSets

CONSTANTS
  CredentialIds, SessionIds, ChannelRefs, CommandKeys,
  RecoveryCoolingOffMs, ChannelChangeCoolingOffMs,     \* IdentityPolicy
  RecentAuthenticationWindowMs, SessionLifetimeMs,
  AttemptIds, Expiries, FailureThreshold, BaseLockMs, MaxLockMs,
  DatabaseSkews, MaxSafe, MaxTime, MaxFailures         \* RecoveryProofs

ASSUME PolicyAssumption ==
  /\ RecoveryCoolingOffMs \in Nat \ {0} /\ ChannelChangeCoolingOffMs \in Nat \ {0}
  /\ SessionLifetimeMs \in Nat
  /\ RecentAuthenticationWindowMs \in 1..SessionLifetimeMs

VARIABLES
  securityRevision, sessionEpoch, verifiedChannelRef,
  credentials,             \* credential id -> status, for those ever enrolled
  sessions,                \* session id -> record, for those ever issued
  recovery,                \* the pending recovery, or NotPending
  verifiedChannelChange,   \* the pending channel change, or NotPending
  processed,               \* command key -> what it was used for
  attempts, now            \* RecoveryProofs

Proofs == INSTANCE RecoveryProofs

ASSUME StoreAssumption == Proofs!ProofsAssumption

identity == <<securityRevision, sessionEpoch, verifiedChannelRef, credentials,
              sessions, recovery, verifiedChannelChange, processed>>
vars == <<identity, attempts, now>>

NotPending == [pending |-> FALSE]
Statuses == {"active", "revoked"}
CommandTypes == {"ADD_CREDENTIAL", "REVOKE_SESSION", "REVOKE_CREDENTIAL",
  "BEGIN_RECOVERY", "CANCEL_RECOVERY", "COMPLETE_RECOVERY",
  "BEGIN_VERIFIED_CHANNEL_CHANGE", "COMPLETE_VERIFIED_CHANNEL_CHANGE",
  "CANCEL_VERIFIED_CHANNEL_CHANGE"}
Sessions == [credentialId : CredentialIds, authenticatedAt : Nat,
             expiresAt : 0..MaxSafe, sessionEpoch : Nat, revoked : BOOLEAN]
Recoveries == [pending : {TRUE}, attemptId : AttemptIds, startedAt : Nat,
               readyAt : 0..MaxSafe]
\* A change is identified by the channel it leads to.
Changes == [pending : {TRUE}, previousChannelRef : ChannelRefs,
            nextChannelRef : ChannelRefs, startedAt : Nat, readyAt : 0..MaxSafe]
Fingerprints == [type : CommandTypes, resultRevision : Nat]

TypeOK ==
  /\ Proofs!ProofsTypeOK
  /\ securityRevision \in Nat \ {0} /\ sessionEpoch \in Nat \ {0}
  /\ verifiedChannelRef \in ChannelRefs
  /\ DOMAIN credentials \subseteq CredentialIds
  /\ \A c \in DOMAIN credentials : credentials[c] \in Statuses
  /\ DOMAIN sessions \subseteq SessionIds
  /\ \A s \in DOMAIN sessions : sessions[s] \in Sessions
  /\ recovery \in Recoveries \cup {NotPending}
  /\ verifiedChannelChange \in Changes \cup {NotPending}
  /\ DOMAIN processed \subseteq CommandKeys
  /\ \A k \in DOMAIN processed : processed[k] \in Fingerprints

\* safeAdd throws beyond the safe integers.
CanAdd(at, duration) == at + duration <= MaxSafe

With(f, x, y) == [z \in DOMAIN f \cup {x} |-> IF z = x THEN y ELSE f[z]]

Init ==
  /\ Proofs!ProofsInit
  /\ securityRevision = 1 /\ sessionEpoch = 1
  /\ verifiedChannelRef \in ChannelRefs
  /\ \E c \in CredentialIds : credentials = With(<<>>, c, "active")
  /\ sessions = <<>> /\ processed = <<>>
  /\ recovery = NotPending /\ verifiedChannelChange = NotPending
-----------------------------------------------------------------------------
(* Sessions.                                                               *)

\* Whether a session verifies, which is all that other parts ask of it.
VerifySession(s, at) ==
  /\ s \in DOMAIN sessions
  /\ ~sessions[s].revoked /\ sessions[s].sessionEpoch = sessionEpoch
  /\ sessions[s].authenticatedAt <= at /\ at <= sessions[s].expiresAt

RecentSession(s) ==
  /\ VerifySession(s, now)
  /\ now - sessions[s].authenticatedAt <= RecentAuthenticationWindowMs

ActiveCredentials == {c \in DOMAIN credentials : credentials[c] = "active"}

Revoke(ended) ==
  [s \in DOMAIN sessions |->
     IF s \in ended THEN [sessions[s] EXCEPT !.revoked = TRUE] ELSE sessions[s]]

\* Fault: a session secret that was used before is accepted again.
AnySessionId(s) == TRUE

NewSessionId(s) == s \notin DOMAIN sessions

\* Signing in, which may rotate one session out; no revision is spent on it.
Authenticate(c, s, replaced) ==
  /\ c \in ActiveCredentials /\ NewSessionId(s)
  /\ CanAdd(now, SessionLifetimeMs)
  /\ Cardinality(replaced) <= 1 /\ \A r \in replaced : VerifySession(r, now)
  /\ sessions' = With(Revoke(replaced), s,
                      [credentialId |-> c, authenticatedAt |-> now,
                       expiresAt |-> now + SessionLifetimeMs,
                       sessionEpoch |-> sessionEpoch, revoked |-> FALSE])
  /\ UNCHANGED <<securityRevision, sessionEpoch, verifiedChannelRef, credentials,
                 recovery, verifiedChannelChange, processed, attempts, now>>
-----------------------------------------------------------------------------
(* The nine commands.  Each targets the current revision with a key of its *)
(* own, and spends both.                                                   *)

Execute(key, type) ==
  /\ key \notin DOMAIN processed
  /\ securityRevision' = securityRevision + 1
  /\ processed' = With(processed, key,
                       [type |-> type, resultRevision |-> securityRevision + 1])
  /\ UNCHANGED now

\* What a repeated command is told; it changes nothing.
RetryAnswer(key, type) ==
  CASE processed[key].type # type -> "IDEMPOTENCY_CONFLICT"
    [] processed[key].resultRevision # securityRevision -> "STALE_SECURITY_REVISION"
    [] OTHER -> "duplicate"

AddCredential(key, actor, c) ==
  /\ Execute(key, "ADD_CREDENTIAL") /\ RecentSession(actor)
  /\ c \notin DOMAIN credentials
  /\ credentials' = With(credentials, c, "active")
  /\ UNCHANGED <<sessionEpoch, verifiedChannelRef, sessions, recovery,
                 verifiedChannelChange, attempts>>

RevokeSession(key, actor, target) ==
  /\ Execute(key, "REVOKE_SESSION") /\ RecentSession(actor)
  /\ target \in DOMAIN sessions
  /\ sessions' = Revoke({target})
  /\ UNCHANGED <<sessionEpoch, verifiedChannelRef, credentials, recovery,
                 verifiedChannelChange, attempts>>

\* Fault: revoking a credential leaves its sessions alone.
KeepCredentialSessions(c) == sessions

RevokeCredentialSessions(c) ==
  Revoke({s \in DOMAIN sessions : sessions[s].credentialId = c})

Revocable(c) == c \in ActiveCredentials /\ Cardinality(ActiveCredentials) > 1

RevokeCredential(key, actor, c) ==
  /\ Execute(key, "REVOKE_CREDENTIAL") /\ RecentSession(actor)
  /\ Revocable(c)
  /\ credentials' = [credentials EXCEPT ![c] = "revoked"]
  /\ sessions' = RevokeCredentialSessions(c)
  /\ UNCHANGED <<sessionEpoch, verifiedChannelRef, recovery,
                 verifiedChannelChange, attempts>>

RecoveryReadyAt == now + RecoveryCoolingOffMs

\* No session is asked for: the two proofs are the whole authority.
BeginRecovery(key, a, at) ==
  /\ Execute(key, "BEGIN_RECOVERY")
  /\ recovery = NotPending /\ CanAdd(now, RecoveryCoolingOffMs)
  /\ Proofs!Accept(a, at, RecoveryReadyAt)
  /\ recovery' = [pending |-> TRUE, attemptId |-> a, startedAt |-> now,
                  readyAt |-> RecoveryReadyAt]
  /\ UNCHANGED <<sessionEpoch, verifiedChannelRef, credentials, sessions,
                 verifiedChannelChange>>

\* DurableRecoveryProofDenied: denied, but the failure is committed.
BeginRecoveryDenied(a, wrong, at) ==
  /\ recovery = NotPending /\ CanAdd(now, RecoveryCoolingOffMs)
  /\ Proofs!RefuseAccept(a, wrong, at, RecoveryReadyAt)
  /\ UNCHANGED <<identity, now>>

\* Fault: the attempt is not tombstoned with the recovery.
CancelRecoveryOnly(key, actor, at) ==
  /\ Execute(key, "CANCEL_RECOVERY") /\ RecentSession(actor)
  /\ recovery # NotPending
  /\ recovery' = NotPending
  /\ UNCHANGED <<sessionEpoch, verifiedChannelRef, credentials, sessions,
                 verifiedChannelChange, attempts>>

CancelRecovery(key, actor, at) ==
  /\ Execute(key, "CANCEL_RECOVERY") /\ RecentSession(actor)
  /\ recovery # NotPending
  /\ Proofs!Cancel(recovery.attemptId, at)
  /\ recovery' = NotPending
  /\ UNCHANGED <<sessionEpoch, verifiedChannelRef, credentials, sessions,
                 verifiedChannelChange>>

ReadyToComplete(a) ==
  recovery # NotPending /\ recovery.attemptId = a /\ now >= recovery.readyAt

RevokeAllSessions == Revoke(DOMAIN sessions)

\* The new credential replaces every other; a pending channel change stays.
CompleteRecovery(key, a, c, at) ==
  /\ Execute(key, "COMPLETE_RECOVERY")
  /\ ReadyToComplete(a) /\ Proofs!Consume(a, at)
  /\ c \notin DOMAIN credentials
  /\ sessionEpoch' = sessionEpoch + 1
  /\ credentials' = With([d \in DOMAIN credentials |-> "revoked"], c, "active")
  /\ sessions' = RevokeAllSessions
  /\ recovery' = NotPending
  /\ UNCHANGED <<verifiedChannelRef, verifiedChannelChange>>

CompleteRecoveryDenied(a, wrong, at) ==
  /\ ReadyToComplete(a) /\ Proofs!RefuseConsume(a, wrong, at)
  /\ UNCHANGED <<identity, now>>

BeginVerifiedChannelChange(key, actor, next) ==
  /\ Execute(key, "BEGIN_VERIFIED_CHANNEL_CHANGE") /\ RecentSession(actor)
  /\ verifiedChannelChange = NotPending
  /\ CanAdd(now, ChannelChangeCoolingOffMs)
  /\ verifiedChannelChange' =
       [pending |-> TRUE, previousChannelRef |-> verifiedChannelRef,
        nextChannelRef |-> next, startedAt |-> now,
        readyAt |-> now + ChannelChangeCoolingOffMs]
  /\ UNCHANGED <<sessionEpoch, verifiedChannelRef, credentials, sessions,
                 recovery, attempts>>

CompleteVerifiedChannelChange(key, actor) ==
  /\ Execute(key, "COMPLETE_VERIFIED_CHANNEL_CHANGE") /\ RecentSession(actor)
  /\ verifiedChannelChange # NotPending /\ now >= verifiedChannelChange.readyAt
  /\ sessionEpoch' = sessionEpoch + 1
  /\ verifiedChannelRef' = verifiedChannelChange.nextChannelRef
  /\ verifiedChannelChange' = NotPending
  /\ sessions' = RevokeAllSessions
  /\ UNCHANGED <<credentials, recovery, attempts>>

CancelVerifiedChannelChange(key, actor) ==
  /\ Execute(key, "CANCEL_VERIFIED_CHANNEL_CHANGE") /\ RecentSession(actor)
  /\ verifiedChannelChange # NotPending
  /\ verifiedChannelChange' = NotPending
  /\ UNCHANGED <<sessionEpoch, verifiedChannelRef, credentials, sessions,
                 recovery, attempts>>
-----------------------------------------------------------------------------
IssueProof(a, factor, expiresAt, at) ==
  Proofs!Issue(a, factor, expiresAt, at) /\ UNCHANGED <<identity, now>>

Tick == Proofs!Tick /\ UNCHANGED identity

SessionCommand(key, actor) ==
  \/ \E c \in CredentialIds : AddCredential(key, actor, c) \/ RevokeCredential(key, actor, c)
  \/ \E target \in SessionIds : RevokeSession(key, actor, target)
  \/ \E at \in Proofs!DatabaseClock : CancelRecovery(key, actor, at)
  \/ \E next \in ChannelRefs : BeginVerifiedChannelChange(key, actor, next)
  \/ CompleteVerifiedChannelChange(key, actor)
  \/ CancelVerifiedChannelChange(key, actor)

RecoveryCommand(key, a, at) ==
  \/ BeginRecovery(key, a, at)
  \/ \E c \in CredentialIds : CompleteRecovery(key, a, c, at)

RecoveryDenied(a, at) ==
  \E wrong \in SUBSET Proofs!Factors :
    BeginRecoveryDenied(a, wrong, at) \/ CompleteRecoveryDenied(a, wrong, at)

Next ==
  \/ \E c \in CredentialIds, s \in SessionIds, replaced \in SUBSET DOMAIN sessions :
       Authenticate(c, s, replaced)
  \/ \E key \in CommandKeys, actor \in SessionIds : SessionCommand(key, actor)
  \/ \E key \in CommandKeys, a \in AttemptIds, at \in Proofs!DatabaseClock :
       RecoveryCommand(key, a, at)
  \/ \E a \in AttemptIds, at \in Proofs!DatabaseClock :
       \/ RecoveryDenied(a, at)
       \/ \E factor \in Proofs!Factors, expiresAt \in Expiries :
            IssueProof(a, factor, expiresAt, at)
  \/ Tick

Spec == Init /\ [][Next]_vars
-----------------------------------------------------------------------------
(* What must hold.                                                         *)

LiveSessions == {s \in DOMAIN sessions :
  ~sessions[s].revoked /\ sessions[s].sessionEpoch = sessionEpoch}

\* The Owner is never left without a way to sign in, and a session that could
\* still verify was made with a credential that is still active: whoever loses
\* a credential loses every session made with it.
SessionsAreBacked ==
  /\ ActiveCredentials # {}
  /\ \A s \in LiveSessions : sessions[s].credentialId \in ActiveCredentials

\* The Owner's record and the proof store agree as restore inspection demands
\* (postgresRestore.ts): a pending recovery has its accepted, open attempt,
\* good until the end of the cooling-off; an accepted, open attempt is the
\* pending recovery's.
RecoveryMatchesProofs ==
  /\ recovery # NotPending =>
       /\ recovery.attemptId \in DOMAIN attempts
       /\ LET attempt == attempts[recovery.attemptId]
          IN /\ attempt.acceptedAt # Proofs!Never /\ ~Proofs!Terminal(attempt)
             /\ attempt.expiresAt >= recovery.readyAt
             /\ attempt.issued = Proofs!Factors
  /\ \A a \in DOMAIN attempts :
       attempts[a].acceptedAt # Proofs!Never /\ ~Proofs!Terminal(attempts[a]) =>
         recovery # NotPending /\ recovery.attemptId = a

\* The identity keeps OwnerAuthority's promise: authority changes only at the
\* word of a recent, live session or at the end of a full cooling-off, and a
\* session that was ended, by whatever means, is never live again.
Authority == INSTANCE OwnerAuthority WITH
  active <- ActiveCredentials,
  retired <- DOMAIN credentials \ ActiveCredentials,
  live <- {[session |-> s, credential |-> sessions[s].credentialId,
            since |-> sessions[s].authenticatedAt] : s \in LiveSessions},
  used <- DOMAIN sessions,
  channel <- verifiedChannelRef,
  recoverySince <- IF recovery = NotPending THEN -1 ELSE recovery.startedAt,
  changeSince <- IF verifiedChannelChange = NotPending THEN -1
                 ELSE verifiedChannelChange.startedAt,
  nextChannel <- IF verifiedChannelChange = NotPending THEN verifiedChannelRef
                 ELSE verifiedChannelChange.nextChannelRef,
  clock <- now,
  RecoveryCoolingOff <- RecoveryCoolingOffMs,
  ChannelCoolingOff <- ChannelChangeCoolingOffMs,
  RecentWindow <- RecentAuthenticationWindowMs,
  Lifetime <- SessionLifetimeMs

KeepsAuthority == Authority!Spec

\* A cancelled or consumed attempt is final, whoever presents it again
\* (applyRecoveryProofAction).
AttemptsAreFinal == [][Proofs!TerminalStep]_attempts

\* IDENTITY_RECOVERY_CONTRACT.md:24 says of identity commands that "matching
\* retries return `duplicate'"; the code answers so only until the next
\* command is accepted.
RetriesAreDuplicates ==
  \A k \in DOMAIN processed : RetryAnswer(k, processed[k].type) = "duplicate"
=============================================================================
