--------------------------- MODULE RecoveryProofs ---------------------------
(***************************************************************************)
(* The durable record of the proofs that recover an Owner Identity         *)
(* (postgres.ts): a saved code and a code sent over the issued channel,    *)
(* issued separately under one attempt, accepted together when a recovery  *)
(* begins, consumed together when it completes, tombstoned when it is      *)
(* cancelled.  Wrong proofs are counted, per attempt and per factor, and   *)
(* every FailureThreshold-th failure of the Owner locks all attempts for   *)
(* twice as long as the last lock did.                                     *)
(*                                                                         *)
(* One Owner.  Each action is one database transaction; `at' is what the   *)
(* database clock tells it, which is not the clock of the API process: it  *)
(* may be ahead, and it may be stepped back between two transactions.      *)
(***************************************************************************)
EXTENDS Integers, FiniteSets

CONSTANTS
  AttemptIds,
  Expiries,          \* expiries the issuer asks for
  FailureThreshold, BaseLockMs, MaxLockMs,    \* RecoveryProofAbusePolicy
  DatabaseSkews,     \* how far the database clock may be from `now'
  MaxSafe,           \* Number.MAX_SAFE_INTEGER
  MaxTime,           \* bound: the last moment of the API clock
  MaxFailures        \* bound: failed presentations that are recorded

ProofsAssumption ==
  /\ FailureThreshold \in Nat \ {0}
  /\ BaseLockMs \in Nat \ {0} /\ MaxLockMs \in Nat /\ MaxLockMs >= BaseLockMs
  /\ Expiries \subseteq Nat \ {0} /\ DatabaseSkews \subseteq Nat
  /\ MaxSafe \in Nat /\ MaxTime \in Nat /\ MaxFailures \in Nat

VARIABLES
  attempts,   \* tables recovery_proof_attempts and _factors, by attempt id
  now         \* the clock of the API process

proofVars == <<attempts, now>>

Factors == {"saved_code", "issued_channel"}
Never == -1     \* a NULL time: below every clock, as in SQL's comparisons
Times == Nat \cup {Never}

Attempts == [expiresAt : Nat, issued : SUBSET Factors, failures : Nat,
             factorFailures : [Factors -> Nat], lockedUntil : Times,
             acceptedAt : Times, cancelledAt : Times, consumedAt : Times]

DatabaseClock == {now + skew : skew \in DatabaseSkews}

ProofsTypeOK ==
  /\ now \in Nat
  /\ DOMAIN attempts \subseteq AttemptIds
  /\ \A a \in DOMAIN attempts : attempts[a] \in Attempts

ProofsInit == attempts = <<>> /\ now = 0
-----------------------------------------------------------------------------
(* Issuing.                                                                *)

NewAttempt(expiresAt) ==
  [expiresAt |-> expiresAt, issued |-> {}, failures |-> 0,
   factorFailures |-> [f \in Factors |-> 0], lockedUntil |-> Never,
   acceptedAt |-> Never, cancelledAt |-> Never, consumedAt |-> Never]

Terminal(attempt) == attempt.cancelledAt # Never \/ attempt.consumedAt # Never

\* The attempt's row is created by the first of its factors; a transaction
\* that throws leaves no row.  Issuing the same proof again is accepted and
\* changes nothing; a factor is never replaced, nor added once the attempt is
\* accepted or terminal.
Issue(a, factor, expiresAt, at) ==
  LET attempt == IF a \in DOMAIN attempts THEN attempts[a] ELSE NewAttempt(expiresAt)
  IN /\ attempt.expiresAt = expiresAt
     /\ \/ factor \in attempt.issued
        \/ /\ expiresAt > at
           /\ attempt.acceptedAt = Never /\ ~Terminal(attempt)
     /\ attempts' = [b \in DOMAIN attempts \cup {a} |->
                       IF b = a THEN [attempt EXCEPT !.issued = @ \cup {factor}]
                       ELSE attempts[b]]
-----------------------------------------------------------------------------
(* Presenting the pair of proofs.                                          *)

\* Fault: only the presented attempt's own lock counts.
LockedAlone(a, at) == attempts[a].lockedUntil >= at

\* A lock of any attempt of the Owner locks them all.
Locked(a, at) == \E b \in DOMAIN attempts : attempts[b].lockedUntil >= at

\* Fault: a tombstoned attempt is still open.
OpenIfCancelled(a, at) ==
  /\ a \in DOMAIN attempts
  /\ attempts[a].consumedAt = Never /\ attempts[a].expiresAt >= at
  /\ ~Locked(a, at) /\ attempts[a].issued = Factors

Open(a, at) ==
  /\ a \in DOMAIN attempts
  /\ ~Terminal(attempts[a]) /\ attempts[a].expiresAt >= at
  /\ ~Locked(a, at) /\ attempts[a].issued = Factors

Acceptable(a, at, validThrough) ==
  /\ Open(a, at) /\ attempts[a].acceptedAt = Never
  /\ attempts[a].expiresAt >= validThrough

Consumable(a, at) ==
  Open(a, at) /\ attempts[a].acceptedAt # Never /\ attempts[a].acceptedAt <= at

\* BaseLockMs doubled n times, and 52 times at most.
Doubled[n \in Nat] ==
  IF n = 0 THEN BaseLockMs
  ELSE IF n > 52 THEN Doubled[n - 1] ELSE 2 * Doubled[n - 1]

LockMs(completedThresholds) ==
  LET doubled == Doubled[completedThresholds - 1]
  IN IF doubled < MaxLockMs THEN doubled ELSE MaxLockMs

\* The failures of all attempts, each as <<attempt, number>>.
Recorded(table) == UNION {{a} \X (1..table[a].failures) : a \in DOMAIN table}

TotalFailures(table) == Cardinality(Recorded(table))

Counted(a, wrong) ==
  [attempts EXCEPT
     ![a].failures = @ + 1,
     ![a].factorFailures = [f \in Factors |-> @[f] + IF f \in wrong THEN 1 ELSE 0]]

\* The failure is committed although the command is denied.  A lock beyond
\* the safe integers throws, and rolls the failure back.
RecordFailure(a, wrong, at) ==
  LET counted == Counted(a, wrong)
      total   == TotalFailures(counted)
      until   == at + LockMs(total \div FailureThreshold)
  IN /\ wrong # {} /\ total <= MaxFailures
     /\ IF total % FailureThreshold # 0 THEN attempts' = counted
        ELSE /\ until <= MaxSafe
             /\ attempts' = [counted EXCEPT ![a].lockedUntil = until]

Accept(a, at, validThrough) ==
  /\ Acceptable(a, at, validThrough)
  /\ attempts' = [attempts EXCEPT ![a].acceptedAt = at]

RefuseAccept(a, wrong, at, validThrough) ==
  Acceptable(a, at, validThrough) /\ RecordFailure(a, wrong, at)

Consume(a, at) ==
  /\ Consumable(a, at)
  /\ attempts' = [attempts EXCEPT ![a].consumedAt = at]

RefuseConsume(a, wrong, at) == Consumable(a, at) /\ RecordFailure(a, wrong, at)

\* An unknown or a cancelled attempt is cancelled already.  The table's CHECK
\* refuses a tombstone earlier than the acceptance.
Cancel(a, at) ==
  \/ /\ a \in DOMAIN attempts => attempts[a].cancelledAt # Never
     /\ UNCHANGED attempts
  \/ /\ a \in DOMAIN attempts /\ ~Terminal(attempts[a])
     /\ at >= attempts[a].acceptedAt
     /\ attempts' = [attempts EXCEPT ![a].cancelledAt = at]

Tick == now < MaxTime /\ now' = now + 1 /\ UNCHANGED attempts
-----------------------------------------------------------------------------
\* The store alone: a caller that presents and cancels when it likes.
Present(a, at) ==
  \/ \E wrong \in SUBSET Factors :
       RefuseConsume(a, wrong, at) \/ \E t \in 0..MaxTime : RefuseAccept(a, wrong, at, t)
  \/ Consume(a, at)
  \/ \E t \in 0..MaxTime : Accept(a, at, t)

ProofsNext ==
  \/ \E a \in AttemptIds, at \in DatabaseClock :
       /\ \/ \E factor \in Factors, expiresAt \in Expiries :
               Issue(a, factor, expiresAt, at)
          \/ Present(a, at)
          \/ Cancel(a, at)
       /\ UNCHANGED now
  \/ Tick

ProofsSpec == ProofsInit /\ [][ProofsNext]_proofVars
-----------------------------------------------------------------------------
(* What must hold.                                                         *)

\* Every attempt the store can hold passes the inspection a restored backup
\* must pass (postgresRestore.ts): its times are in order and within the
\* expiry, it is not both cancelled and consumed, failures and acceptance
\* need both factors, and the factors' counts add up to the attempt's.
AttemptIsCoherent(attempt) ==
  LET saved   == attempt.factorFailures["saved_code"]
      channel == attempt.factorFailures["issued_channel"]
  IN /\ attempt.lockedUntil # Never => attempt.failures > 0
     /\ attempt.acceptedAt <= attempt.expiresAt
     /\ attempt.consumedAt <= attempt.expiresAt
     /\ attempt.consumedAt # Never =>
          attempt.acceptedAt # Never /\ attempt.consumedAt >= attempt.acceptedAt
     /\ attempt.cancelledAt # Never => attempt.cancelledAt >= attempt.acceptedAt
     /\ attempt.cancelledAt = Never \/ attempt.consumedAt = Never
     /\ attempt.failures > 0 \/ attempt.acceptedAt # Never => attempt.issued = Factors
     /\ saved <= attempt.failures /\ channel <= attempt.failures
     /\ saved + channel >= attempt.failures

\* The store never holds an attempt that restore would refuse.
AttemptsAreCoherent ==
  \A a \in DOMAIN attempts : AttemptIsCoherent(attempts[a])

\* The time that locks must have taken before the (n * FailureThreshold + 1)-th
\* failure could be recorded.
LockedTime[n \in Nat] == IF n = 0 THEN 0 ELSE LockedTime[n - 1] + LockMs(n) + 1

\* Guessing is slowed down over all attempts of the Owner: as many failures as
\* are recorded cannot have been made faster than the locks between them,
\* each twice the last, let them.
GuessesAreLimited ==
  LET total == TotalFailures(attempts)
  IN total > 0 =>
       \E at \in DatabaseClock : at >= LockedTime[(total - 1) \div FailureThreshold]

\* A cancelled or consumed attempt is final: no proof is added to it, no
\* failure is counted, and nothing can be done with it again.
TerminalStep ==
  \A a \in DOMAIN attempts :
    Terminal(attempts[a]) => a \in DOMAIN attempts' /\ attempts'[a] = attempts[a]
=============================================================================
