------------------------ MODULE OwnerIdentityProofs ------------------------
(***************************************************************************)
(* Proofs about the Owner Identity and its recovery proofs: for every      *)
(* number of credentials, sessions, commands and attempts, every policy    *)
(* and every database clock.                                               *)
(***************************************************************************)
EXTENDS OwnerIdentity, FiniteSetTheorems, WellFoundedInduction, TLAPS

-----------------------------------------------------------------------------
(* The recovery proof store, under any caller.                             *)

(* An attempt's record.  What lockedUntil is depends on the number of all  *)
(* failures: it has an invariant of its own, CountInv.                     *)
IsAttempt(x) ==
  x \in [expiresAt : Nat, issued : SUBSET Proofs!Factors, failures : Nat,
         factorFailures : [Proofs!Factors -> Nat], lockedUntil : {x.lockedUntil},
         acceptedAt : Proofs!Times, cancelledAt : Proofs!Times,
         consumedAt : Proofs!Times]

(* Accepted and still open: the attempt of a pending recovery.             *)
IsPending(x) == x.acceptedAt # Proofs!Never /\ ~Proofs!Terminal(x)

StoreInv ==
  /\ now \in Nat
  /\ DOMAIN attempts \subseteq AttemptIds
  /\ \A a \in DOMAIN attempts : IsAttempt(attempts[a])
  /\ Proofs!AttemptsAreCoherent

(* One attempt is written and the others are left alone.                   *)
Writes(a, x) ==
  /\ DOMAIN attempts' = DOMAIN attempts \cup {a}
  /\ attempts'[a] = x
  /\ \A b \in DOMAIN attempts \ {a} : attempts'[b] = attempts[b]

LEMMA Nulls == Proofs!Never \in Int /\ Proofs!Times \subseteq Int
               /\ Proofs!Never \in Proofs!Times /\ Nat \subseteq Proofs!Times
               /\ \A n \in Nat : n # Proofs!Never /\ Proofs!Never < n
BY DEF Proofs!Never, Proofs!Times

LEMMA TwoFactors ==
  "saved_code" \in Proofs!Factors /\ "issued_channel" \in Proofs!Factors
  /\ \A f \in Proofs!Factors : f = "saved_code" \/ f = "issued_channel"
BY DEF Proofs!Factors

LEMMA ClockIsNat ==
  ASSUME now \in Nat PROVE Proofs!DatabaseClock \subseteq Nat
<1>1. DatabaseSkews \subseteq Nat
  BY StoreAssumption DEF Proofs!ProofsAssumption
<1> QED
  BY <1>1 DEF Proofs!DatabaseClock


(* What a call makes of the attempt x: nothing is taken from it, and only  *)
(* Accept makes it a pending recovery's, only Consume and Cancel end it.   *)
Keeps(y, x) ==
  /\ y.expiresAt = x.expiresAt /\ x.issued \subseteq y.issued
  /\ IsPending(y) <=> IsPending(x)

(* Issuing writes a coherent attempt, which is not pending unless it was;  *)
(* a terminal attempt stays as it is.                                      *)
LEMMA IssueWrites ==
  ASSUME StoreInv, NEW a, NEW factor \in Proofs!Factors, NEW expiresAt \in Nat,
         NEW at \in Nat, Proofs!Issue(a, factor, expiresAt, at)
  PROVE  \E x : /\ Writes(a, x) /\ IsAttempt(x) /\ Proofs!AttemptIsCoherent(x)
                /\ a \in DOMAIN attempts => Keeps(x, attempts[a])
                /\ a \notin DOMAIN attempts => ~IsPending(x)
                /\ a \in DOMAIN attempts /\ Proofs!Terminal(attempts[a]) => x = attempts[a]
<1> PICK old : old = (IF a \in DOMAIN attempts THEN attempts[a] ELSE Proofs!NewAttempt(expiresAt))
  OBVIOUS
<1>1. /\ old.expiresAt = expiresAt
      /\ factor \in old.issued \/ (old.acceptedAt = Proofs!Never /\ ~Proofs!Terminal(old))
      /\ attempts' = [b \in DOMAIN attempts \cup {a} |->
                        IF b = a THEN [old EXCEPT !.issued = @ \cup {factor}] ELSE attempts[b]]
  BY DEF Proofs!Issue
<1>2. IsAttempt(old) /\ Proofs!AttemptIsCoherent(old)
  <2>1. CASE a \in DOMAIN attempts
    BY <2>1 DEF StoreInv, Proofs!AttemptsAreCoherent
  <2>2. CASE a \notin DOMAIN attempts
    <3>1. old = Proofs!NewAttempt(expiresAt)
      BY <2>2
    <3>2. IsAttempt(old)
      BY <3>1, Nulls DEF Proofs!NewAttempt, IsAttempt
    <3>3. Proofs!AttemptIsCoherent(old)
      BY <3>1, Nulls, TwoFactors DEF Proofs!NewAttempt, Proofs!AttemptIsCoherent
    <3> QED
      BY <3>2, <3>3
  <2> QED
    BY <2>1, <2>2
<1> DEFINE x == [old EXCEPT !.issued = @ \cup {factor}]
<1>3. /\ x.issued = old.issued \cup {factor} /\ x.expiresAt = old.expiresAt
      /\ x.failures = old.failures /\ x.factorFailures = old.factorFailures
      /\ x.lockedUntil = old.lockedUntil /\ x.acceptedAt = old.acceptedAt
      /\ x.cancelledAt = old.cancelledAt /\ x.consumedAt = old.consumedAt
      /\ IsAttempt(x)
  BY <1>2 DEF IsAttempt
<1>4. Writes(a, x)
  BY <1>1 DEF Writes
<1>5. factor \in old.issued => x = old
  BY <1>2 DEF IsAttempt
<1>7. Proofs!AttemptIsCoherent(x)
  <2>1. CASE factor \in old.issued
    BY <2>1, <1>2, <1>5
  <2>2. CASE factor \notin old.issued
    <3>1. old.failures = 0 /\ old.acceptedAt = Proofs!Never
      BY <2>2, <1>1, <1>2 DEF Proofs!AttemptIsCoherent, IsAttempt
    <3> QED
      BY <3>1, <1>2, <1>3 DEF Proofs!AttemptIsCoherent
  <2> QED
    BY <2>1, <2>2
<1>8. IsPending(x) <=> IsPending(old)
  BY <1>3 DEF IsPending, Proofs!Terminal
<1>9. a \in DOMAIN attempts => Keeps(x, attempts[a])
  BY <1>3, <1>8 DEF Keeps
<1>10. a \notin DOMAIN attempts => ~IsPending(x)
  BY <1>8 DEF IsPending, Proofs!NewAttempt
<1>11. a \in DOMAIN attempts /\ Proofs!Terminal(attempts[a]) => x = attempts[a]
  BY <1>1, <1>5
<1> QED
  BY <1>3, <1>4, <1>7, <1>9, <1>10, <1>11

(* A wrong pair is counted against an open attempt, and may lock it.       *)
LEMMA FailureWrites ==
  ASSUME StoreInv, NEW a, NEW wrong \in SUBSET Proofs!Factors, NEW at \in Nat,
         Proofs!Open(a, at), Proofs!RecordFailure(a, wrong, at)
  PROVE  /\ a \in DOMAIN attempts /\ ~Proofs!Terminal(attempts[a])
         /\ \E x : /\ Writes(a, x) /\ IsAttempt(x) /\ Proofs!AttemptIsCoherent(x)
                   /\ Keeps(x, attempts[a])
<1>1. a \in DOMAIN attempts /\ ~Proofs!Terminal(attempts[a])
      /\ attempts[a].issued = Proofs!Factors
  BY DEF Proofs!Open
<1> PICK old : old = attempts[a]
  OBVIOUS
<1>2. IsAttempt(old) /\ Proofs!AttemptIsCoherent(old)
  BY <1>1 DEF StoreInv, Proofs!AttemptsAreCoherent
<1> PICK counts : counts = [f \in Proofs!Factors |->
                     old.factorFailures[f] + IF f \in wrong THEN 1 ELSE 0]
  OBVIOUS
<1>3. counts \in [Proofs!Factors -> Nat]
  BY <1>2 DEF IsAttempt
<1>4. /\ counts["saved_code"] <= old.failures + 1
      /\ counts["issued_channel"] <= old.failures + 1
      /\ counts["saved_code"] + counts["issued_channel"] >= old.failures + 1
  <2>1. wrong # {} /\ \A f \in wrong : f = "saved_code" \/ f = "issued_channel"
    BY TwoFactors DEF Proofs!RecordFailure
  <2>2. "saved_code" \in wrong \/ "issued_channel" \in wrong
    BY <2>1
  <2>3. /\ counts["saved_code"] = old.factorFailures["saved_code"]
             + IF "saved_code" \in wrong THEN 1 ELSE 0
        /\ counts["issued_channel"] = old.factorFailures["issued_channel"]
             + IF "issued_channel" \in wrong THEN 1 ELSE 0
    BY TwoFactors
  <2>4. /\ old.failures \in Nat /\ old.factorFailures["saved_code"] \in Nat
        /\ old.factorFailures["issued_channel"] \in Nat
    BY <1>2, TwoFactors DEF IsAttempt
  <2>5. /\ old.factorFailures["saved_code"] <= old.failures
        /\ old.factorFailures["issued_channel"] <= old.failures
        /\ old.factorFailures["saved_code"] + old.factorFailures["issued_channel"]
             >= old.failures
    BY <1>2 DEF Proofs!AttemptIsCoherent
  <2> QED
    BY <2>2, <2>3, <2>4, <2>5
<1> DEFINE y == [old EXCEPT !.failures = @ + 1, !.factorFailures = counts]
<1>5. /\ y.issued = old.issued /\ y.expiresAt = old.expiresAt
      /\ y.failures = old.failures + 1 /\ y.factorFailures = counts
      /\ y.lockedUntil = old.lockedUntil /\ y.acceptedAt = old.acceptedAt
      /\ y.cancelledAt = old.cancelledAt /\ y.consumedAt = old.consumedAt
      /\ IsAttempt(y)
  <2>1. old.failures + 1 \in Nat
    BY <1>2 DEF IsAttempt
  <2> QED
    BY <1>2, <1>3, <2>1 DEF IsAttempt
<1>6. Proofs!Counted(a, wrong) = [attempts EXCEPT ![a] = y]
  BY DEF Proofs!Counted
<1> HIDE DEF y
<1>7. PICK z : z = y
  OBVIOUS
<1>8. \E x : Writes(a, x) /\ (x = z \/ \E until : x = [z EXCEPT !.lockedUntil = until])
  <2>1. CASE attempts' = Proofs!Counted(a, wrong)
    <3>1. Writes(a, z)
      BY <1>1, <1>6, <1>7, <2>1 DEF Writes
    <3> QED
      BY <3>1
  <2>2. ASSUME NEW until,
               attempts' = [Proofs!Counted(a, wrong) EXCEPT ![a].lockedUntil = until]
        PROVE  Writes(a, [z EXCEPT !.lockedUntil = until])
    <3>1. attempts' = [[attempts EXCEPT ![a] = z] EXCEPT ![a].lockedUntil = until]
      BY <1>6, <1>7, <2>2
    <3>2. [attempts EXCEPT ![a] = z][a] = z
      BY <1>1
    <3> QED
      BY <1>1, <3>1, <3>2 DEF Writes
  <2> QED
    BY <2>1, <2>2 DEF Proofs!RecordFailure
<1> PICK x : Writes(a, x) /\ (x = z \/ \E until : x = [z EXCEPT !.lockedUntil = until])
  BY <1>8
<1>9. /\ x.issued = z.issued /\ x.expiresAt = z.expiresAt
      /\ x.failures = z.failures /\ x.factorFailures = z.factorFailures
      /\ x.acceptedAt = z.acceptedAt
      /\ x.cancelledAt = z.cancelledAt /\ x.consumedAt = z.consumedAt
      /\ IsAttempt(x)
  <2>1. ASSUME NEW until, x = [z EXCEPT !.lockedUntil = until]
        PROVE  /\ x.issued = z.issued /\ x.expiresAt = z.expiresAt
               /\ x.failures = z.failures /\ x.factorFailures = z.factorFailures
               /\ x.acceptedAt = z.acceptedAt
               /\ x.cancelledAt = z.cancelledAt /\ x.consumedAt = z.consumedAt
               /\ IsAttempt(x)
    BY <2>1, <1>5, <1>7 DEF IsAttempt
  <2> QED
    BY <2>1, <1>5, <1>7
<1>10. Writes(a, x)
  OBVIOUS
<1>11. Proofs!AttemptIsCoherent(x)
  <2>1. x.failures = old.failures + 1 /\ old.failures \in Nat /\ x.failures > 0
    BY <1>2, <1>5, <1>7, <1>9 DEF IsAttempt
  <2> QED
    BY <1>1, <1>2, <1>4, <1>5, <1>7, <1>9, <2>1 DEF Proofs!AttemptIsCoherent
<1>12. Keeps(x, attempts[a])
  BY <1>5, <1>7, <1>9 DEF Keeps, IsPending, Proofs!Terminal
<1> QED
  BY <1>1, <1>9, <1>10, <1>11, <1>12

(* Accepting makes an open attempt a pending recovery's.                   *)
LEMMA AcceptWrites ==
  ASSUME StoreInv, NEW a, NEW at \in Nat, NEW validThrough,
         Proofs!Accept(a, at, validThrough)
  PROVE  /\ a \in DOMAIN attempts /\ ~Proofs!Terminal(attempts[a])
         /\ ~IsPending(attempts[a])
         /\ \E x : /\ Writes(a, x) /\ IsAttempt(x) /\ Proofs!AttemptIsCoherent(x)
                   /\ IsPending(x) /\ x.expiresAt >= validThrough
                   /\ x.issued = Proofs!Factors
<1>1. /\ a \in DOMAIN attempts /\ ~Proofs!Terminal(attempts[a])
      /\ attempts[a].issued = Proofs!Factors /\ attempts[a].expiresAt >= at
      /\ attempts[a].acceptedAt = Proofs!Never
      /\ attempts[a].expiresAt >= validThrough
      /\ attempts' = [attempts EXCEPT ![a].acceptedAt = at]
  BY DEF Proofs!Accept, Proofs!Acceptable, Proofs!Open
<1> PICK old : old = attempts[a]
  OBVIOUS
<1>2. IsAttempt(old) /\ Proofs!AttemptIsCoherent(old)
  BY <1>1 DEF StoreInv, Proofs!AttemptsAreCoherent
<1> PICK x : x = [old EXCEPT !.acceptedAt = at]
  OBVIOUS
<1>3. /\ x.issued = old.issued /\ x.expiresAt = old.expiresAt
      /\ x.failures = old.failures /\ x.factorFailures = old.factorFailures
      /\ x.lockedUntil = old.lockedUntil /\ x.acceptedAt = at
      /\ x.cancelledAt = old.cancelledAt /\ x.consumedAt = old.consumedAt
      /\ IsAttempt(x)
  BY <1>2, Nulls DEF IsAttempt
<1>4. Writes(a, x)
  BY <1>1 DEF Writes
<1>5. x.cancelledAt = Proofs!Never /\ x.consumedAt = Proofs!Never
  BY <1>1, <1>3 DEF Proofs!Terminal
<1>6. IsPending(x)
  BY <1>3, <1>5, Nulls DEF IsPending, Proofs!Terminal
<1>7. Proofs!AttemptIsCoherent(x)
  <2>1. x.expiresAt \in Nat /\ x.consumedAt <= x.expiresAt
    BY <1>3, <1>5, Nulls DEF IsAttempt
  <2> QED
    BY <1>1, <1>2, <1>3, <1>5, <2>1 DEF Proofs!AttemptIsCoherent
<1> QED
  BY <1>1, <1>3, <1>4, <1>6, <1>7 DEF IsPending

(* Consuming ends the pending recovery's attempt.                          *)
LEMMA ConsumeWrites ==
  ASSUME StoreInv, NEW a, NEW at \in Nat, Proofs!Consume(a, at)
  PROVE  /\ a \in DOMAIN attempts /\ ~Proofs!Terminal(attempts[a])
         /\ \E x : /\ Writes(a, x) /\ IsAttempt(x) /\ Proofs!AttemptIsCoherent(x)
                   /\ Proofs!Terminal(x)
<1>1. /\ a \in DOMAIN attempts /\ ~Proofs!Terminal(attempts[a])
      /\ attempts[a].expiresAt >= at
      /\ attempts[a].acceptedAt # Proofs!Never /\ attempts[a].acceptedAt <= at
      /\ attempts' = [attempts EXCEPT ![a].consumedAt = at]
  BY DEF Proofs!Consume, Proofs!Consumable, Proofs!Open
<1> PICK old : old = attempts[a]
  OBVIOUS
<1>2. IsAttempt(old) /\ Proofs!AttemptIsCoherent(old)
  BY <1>1 DEF StoreInv, Proofs!AttemptsAreCoherent
<1> PICK x : x = [old EXCEPT !.consumedAt = at]
  OBVIOUS
<1>3. /\ x.issued = old.issued /\ x.expiresAt = old.expiresAt
      /\ x.failures = old.failures /\ x.factorFailures = old.factorFailures
      /\ x.lockedUntil = old.lockedUntil /\ x.acceptedAt = old.acceptedAt
      /\ x.cancelledAt = old.cancelledAt /\ x.consumedAt = at
      /\ IsAttempt(x)
  BY <1>2, Nulls DEF IsAttempt
<1>4. Writes(a, x)
  BY <1>1 DEF Writes
<1>5. Proofs!Terminal(x)
  BY <1>3, Nulls DEF Proofs!Terminal
<1>6. Proofs!AttemptIsCoherent(x)
  BY <1>1, <1>2, <1>3 DEF Proofs!AttemptIsCoherent, Proofs!Terminal
<1> QED
  BY <1>1, <1>3, <1>4, <1>5, <1>6

(* Cancelling leaves a tombstone, unless there is nothing to end.          *)
LEMMA CancelWrites ==
  ASSUME StoreInv, NEW a, NEW at \in Nat, Proofs!Cancel(a, at)
  PROVE  \/ /\ a \in DOMAIN attempts => Proofs!Terminal(attempts[a])
            /\ UNCHANGED attempts
         \/ /\ a \in DOMAIN attempts /\ ~Proofs!Terminal(attempts[a])
            /\ \E x : /\ Writes(a, x) /\ IsAttempt(x) /\ Proofs!AttemptIsCoherent(x)
                      /\ Proofs!Terminal(x)
<1>1. CASE /\ a \in DOMAIN attempts => attempts[a].cancelledAt # Proofs!Never
           /\ UNCHANGED attempts
  BY <1>1 DEF Proofs!Terminal
<1>2. CASE /\ a \in DOMAIN attempts /\ ~Proofs!Terminal(attempts[a])
           /\ at >= attempts[a].acceptedAt
           /\ attempts' = [attempts EXCEPT ![a].cancelledAt = at]
  <2> PICK old : old = attempts[a]
    OBVIOUS
  <2>2. IsAttempt(old) /\ Proofs!AttemptIsCoherent(old)
    BY <1>2 DEF StoreInv, Proofs!AttemptsAreCoherent
  <2> PICK x : x = [old EXCEPT !.cancelledAt = at]
    OBVIOUS
  <2>3. /\ x.issued = old.issued /\ x.expiresAt = old.expiresAt
        /\ x.failures = old.failures /\ x.factorFailures = old.factorFailures
        /\ x.lockedUntil = old.lockedUntil /\ x.acceptedAt = old.acceptedAt
        /\ x.cancelledAt = at /\ x.consumedAt = old.consumedAt
        /\ IsAttempt(x)
    BY <2>2, Nulls DEF IsAttempt
  <2>4. Writes(a, x)
    BY <1>2 DEF Writes
  <2>5. Proofs!Terminal(x)
    BY <2>3, Nulls DEF Proofs!Terminal
  <2>6. Proofs!AttemptIsCoherent(x)
    BY <1>2, <2>2, <2>3 DEF Proofs!AttemptIsCoherent, Proofs!Terminal
  <2> QED
    BY <1>2, <2>3, <2>4, <2>5, <2>6
<1> QED
  BY <1>1, <1>2 DEF Proofs!Cancel

(* A coherent attempt written is all that the store's invariant asks.      *)
LEMMA WritesKeepStore ==
  ASSUME StoreInv, NEW a \in AttemptIds, now' \in Nat,
         NEW x, Writes(a, x), IsAttempt(x), Proofs!AttemptIsCoherent(x)
  PROVE  StoreInv'
<1>1. DOMAIN attempts' \subseteq AttemptIds
  BY DEF StoreInv, Writes
<1>2. ASSUME NEW b \in DOMAIN attempts'
      PROVE  IsAttempt(attempts'[b]) /\ Proofs!AttemptIsCoherent(attempts'[b])
  <2>1. CASE b = a
    BY <2>1 DEF Writes
  <2>2. CASE b # a
    BY <1>2, <2>2 DEF Writes, StoreInv, Proofs!AttemptsAreCoherent
  <2> QED
    BY <2>1, <2>2
<1>3. (\A b \in DOMAIN attempts : IsAttempt(attempts[b]))'
  BY <1>2 DEF IsAttempt
<1>4. Proofs!AttemptsAreCoherent'
  BY <1>2 DEF Proofs!AttemptsAreCoherent, Proofs!AttemptIsCoherent
<1> QED
  BY <1>1, <1>3, <1>4 DEF StoreInv

(* A terminal attempt is never written.                                    *)
LEMMA WritesKeepTerminal ==
  ASSUME NEW a, NEW x, Writes(a, x),
         a \in DOMAIN attempts /\ Proofs!Terminal(attempts[a]) => x = attempts[a]
  PROVE  Proofs!TerminalStep
BY DEF Writes, Proofs!TerminalStep

(* A call of the store.                                                    *)
Call(a, at) ==
  \/ \E factor \in Proofs!Factors, expiresAt \in Expiries :
       Proofs!Issue(a, factor, expiresAt, at)
  \/ \E wrong \in SUBSET Proofs!Factors :
       \/ Proofs!RefuseConsume(a, wrong, at)
       \/ \E t \in Int : Proofs!RefuseAccept(a, wrong, at, t)
  \/ Proofs!Consume(a, at)
  \/ \E t \in Int : Proofs!Accept(a, at, t)
  \/ Proofs!Cancel(a, at)

(* Every step of the store is a call, or time that passes.                 *)
Moves ==
  \/ UNCHANGED <<attempts, now>>
  \/ Proofs!Tick
  \/ UNCHANGED now /\ \E a \in AttemptIds, at \in Proofs!DatabaseClock : Call(a, at)

LEMMA StoreCallKeeps ==
  ASSUME StoreInv, UNCHANGED now, NEW a \in AttemptIds, NEW at \in Proofs!DatabaseClock,
         Call(a, at)
  PROVE  StoreInv' /\ Proofs!TerminalStep
<1>1. now \in Nat /\ now' \in Nat /\ at \in Nat
  BY ClockIsNat DEF StoreInv
<1> SUFFICES ASSUME attempts' # attempts
             PROVE  \E x : /\ Writes(a, x) /\ IsAttempt(x) /\ Proofs!AttemptIsCoherent(x)
                           /\ a \in DOMAIN attempts /\ Proofs!Terminal(attempts[a])
                                => x = attempts[a]
  <2>1. CASE attempts' = attempts
    BY <2>1 DEF StoreInv, IsAttempt, Proofs!AttemptsAreCoherent, Proofs!AttemptIsCoherent,
                Proofs!TerminalStep
  <2>2. CASE attempts' # attempts
    <3>1. PICK x : /\ Writes(a, x) /\ IsAttempt(x) /\ Proofs!AttemptIsCoherent(x)
                   /\ a \in DOMAIN attempts /\ Proofs!Terminal(attempts[a])
                        => x = attempts[a]
      BY <2>2
    <3> QED
      BY <1>1, <3>1, WritesKeepStore, WritesKeepTerminal
  <2> QED
    BY <2>1, <2>2
<1>2. ASSUME NEW factor \in Proofs!Factors, NEW expiresAt \in Expiries,
             Proofs!Issue(a, factor, expiresAt, at)
      PROVE  \E x : /\ Writes(a, x) /\ IsAttempt(x) /\ Proofs!AttemptIsCoherent(x)
                    /\ a \in DOMAIN attempts /\ Proofs!Terminal(attempts[a])
                         => x = attempts[a]
  <2>1. expiresAt \in Nat
    BY StoreAssumption DEF Proofs!ProofsAssumption
  <2> QED
    BY <1>1, <1>2, <2>1, IssueWrites
<1>3. ASSUME NEW wrong \in SUBSET Proofs!Factors,
             Proofs!Open(a, at), Proofs!RecordFailure(a, wrong, at)
      PROVE  \E x : /\ Writes(a, x) /\ IsAttempt(x) /\ Proofs!AttemptIsCoherent(x)
                    /\ a \in DOMAIN attempts /\ Proofs!Terminal(attempts[a])
                         => x = attempts[a]
  BY <1>1, <1>3, FailureWrites
<1>4. ASSUME NEW wrong \in SUBSET Proofs!Factors,
             \/ Proofs!RefuseConsume(a, wrong, at)
             \/ \E t \in Int : Proofs!RefuseAccept(a, wrong, at, t)
      PROVE  \E x : /\ Writes(a, x) /\ IsAttempt(x) /\ Proofs!AttemptIsCoherent(x)
                    /\ a \in DOMAIN attempts /\ Proofs!Terminal(attempts[a])
                         => x = attempts[a]
  <2>1. Proofs!Open(a, at) /\ Proofs!RecordFailure(a, wrong, at)
    BY <1>4 DEF Proofs!RefuseConsume, Proofs!RefuseAccept, Proofs!Consumable,
                Proofs!Acceptable
  <2> QED
    BY <2>1, <1>3
<1>5. CASE Proofs!Consume(a, at)
  BY <1>1, <1>5, ConsumeWrites
<1>6. CASE \E t \in Int : Proofs!Accept(a, at, t)
  BY <1>1, <1>6, AcceptWrites
<1>7. CASE Proofs!Cancel(a, at)
  BY <1>1, <1>7, CancelWrites
<1> QED
  BY <1>2, <1>4, <1>5, <1>6, <1>7 DEF Call

LEMMA MovesKeepStore ==
  ASSUME StoreInv, Moves
  PROVE  StoreInv' /\ [Proofs!TerminalStep]_attempts /\ now' \in Nat
<1>1. ASSUME now' \in Nat, UNCHANGED attempts PROVE StoreInv'
  BY <1>1 DEF StoreInv, IsAttempt, Proofs!AttemptsAreCoherent, Proofs!AttemptIsCoherent
<1>2. CASE UNCHANGED <<attempts, now>>
  BY <1>1, <1>2 DEF StoreInv
<1>3. CASE Proofs!Tick
  BY <1>1, <1>3 DEF Proofs!Tick, StoreInv
<1>4. CASE UNCHANGED now /\ \E a \in AttemptIds, at \in Proofs!DatabaseClock : Call(a, at)
  BY <1>4, StoreCallKeeps DEF StoreInv
<1> QED
  BY <1>2, <1>3, <1>4 DEF Moves

(* The store alone, whoever calls it.                                      *)
LEMMA StoreMoves ==
  ASSUME [Proofs!ProofsNext]_(Proofs!proofVars)
  PROVE  Moves
<1>1. CASE UNCHANGED Proofs!proofVars
  BY <1>1 DEF Proofs!proofVars, Moves
<1>2. ASSUME NEW a \in AttemptIds, NEW at \in Proofs!DatabaseClock, UNCHANGED now,
             \/ \E factor \in Proofs!Factors, expiresAt \in Expiries :
                  Proofs!Issue(a, factor, expiresAt, at)
             \/ Proofs!Present(a, at)
             \/ Proofs!Cancel(a, at)
      PROVE  Moves
  <2>1. 0..MaxTime \subseteq Int
    BY StoreAssumption DEF Proofs!ProofsAssumption
  <2>2. Call(a, at)
    BY <1>2, <2>1 DEF Proofs!Present, Call
  <2> QED
    BY <1>2, <2>2 DEF Moves
<1> QED
  BY <1>1, <1>2 DEF Proofs!ProofsNext, Moves

LEMMA StoreInit == Proofs!ProofsInit => StoreInv
BY DEF Proofs!ProofsInit, StoreInv, Proofs!AttemptsAreCoherent

(* The store alone never holds an attempt that restore would refuse,       *)
(* whatever its caller presents, cancels and issues.                       *)
THEOREM StoreIsCoherent == Proofs!ProofsSpec => []Proofs!AttemptsAreCoherent
<1>1. StoreInv /\ [Proofs!ProofsNext]_(Proofs!proofVars) => StoreInv'
  BY StoreMoves, MovesKeepStore
<1>2. StoreInv => Proofs!AttemptsAreCoherent
  BY DEF StoreInv
<1> QED
  BY <1>1, <1>2, StoreInit, PTL DEF Proofs!ProofsSpec

(* In the store alone too, a terminal attempt is final.                    *)
THEOREM StoreTerminalIsFinal == Proofs!ProofsSpec => AttemptsAreFinal
<1>1. StoreInv /\ [Proofs!ProofsNext]_(Proofs!proofVars) => StoreInv'
  BY StoreMoves, MovesKeepStore
<1>2. StoreInv /\ [Proofs!ProofsNext]_(Proofs!proofVars) => [Proofs!TerminalStep]_attempts
  BY StoreMoves, MovesKeepStore
<1> QED
  BY <1>1, <1>2, StoreInit, PTL DEF Proofs!ProofsSpec, AttemptsAreFinal

-----------------------------------------------------------------------------
(* Recursive functions on the numbers, for the lengths of the locks.       *)

(* The least of some numbers.                                              *)
LEMMA LeastNat ==
  ASSUME NEW S \in SUBSET Nat, S # {}
  PROVE  \E n \in S : \A m \in S : n <= m
<1>1. PICK n \in S : \A m \in S : ~(<<m, n>> \in OpToRel(<, Nat))
  BY WFMin, NatLessThanWellFounded
<1>2. \A m \in S : <<m, n>> \in OpToRel(<, Nat) <=> m < n
  BY DEF OpToRel
<1>3. \A m \in S : n <= m
  <2> SUFFICES ASSUME NEW m \in S PROVE n <= m
    OBVIOUS
  <2>1. m \in Nat /\ n \in Nat /\ ~(m < n)
    BY <1>1, <1>2
  <2> QED
    BY <2>1
<1> QED
  BY <1>3

(* A recursive function on the numbers is what its equation says.          *)
LEMMA Recursion ==
  ASSUME NEW b \in Int, NEW F \in [Nat \X Int -> Int]
  PROVE  \E f \in [Nat -> Int] :
           \A n \in Nat : f[n] = IF n = 0 THEN b ELSE F[<<n, f[n - 1]>>]
<1> DEFINE Approx(n) == {g \in [0..n -> Int] :
                           g[0] = b /\ \A i \in 1..n : g[i] = F[<<i, g[i - 1]>>]}
<1>1. \A n \in Nat : Approx(n) # {}
  <2> DEFINE Bad == {n \in Nat : Approx(n) = {}}
  <2> SUFFICES ASSUME Bad # {} PROVE FALSE
    OBVIOUS
  <2>1. PICK n \in Bad : \A m \in Bad : n <= m
    <3>1. Bad \in SUBSET Nat
      OBVIOUS
    <3> HIDE DEF Bad
    <3> QED
      BY <3>1, LeastNat
  <2>n. n \in Nat /\ Approx(n) = {}
    BY <2>1
  <2>2. n # 0
    <3>1. [i \in 0..0 |-> b] \in Approx(0)
      OBVIOUS
    <3> QED
      BY <2>n, <3>1
  <2>3. n - 1 \in Nat /\ n - 1 \notin Bad
    <3> HIDE DEF Approx
    <3>1. n - 1 \in Nat /\ ~(n <= n - 1)
      BY <2>n, <2>2
    <3> HIDE DEF Bad
    <3> QED
      BY <2>1, <3>1
  <2>4. PICK g : g \in Approx(n - 1)
    <3> HIDE DEF Approx
    <3> QED
      BY <2>3
  <2> DEFINE h == [i \in 0..n |-> IF i = n THEN F[<<n, g[n - 1]>>] ELSE g[i]]
  <2>5. g[n - 1] \in Int /\ g \in [0..(n - 1) -> Int]
    BY <2>3, <2>4
  <2>6. F[<<n, g[n - 1]>>] \in Int
    BY <2>n, <2>5
  <2>7. h \in [0..n -> Int]
    BY <2>n, <2>3, <2>5, <2>6
  <2>8. h[0] = b
    BY <2>n, <2>2, <2>4
  <2>9. \A i \in 1..n : h[i] = F[<<i, h[i - 1]>>]
    <3> SUFFICES ASSUME NEW i \in 1..n PROVE h[i] = F[<<i, h[i - 1]>>]
      OBVIOUS
    <3>1. i - 1 \in 0..n /\ i - 1 # n /\ h[i - 1] = g[i - 1]
      BY <2>n
    <3>2. CASE i = n
      BY <3>1, <3>2
    <3>3. CASE i # n
      <4>1. i \in 1..(n - 1) /\ h[i] = g[i]
        BY <2>n, <3>3
      <4> QED
        BY <2>4, <3>1, <4>1
    <3> QED
      BY <3>2, <3>3
  <2>10. h \in Approx(n)
    BY <2>7, <2>8, <2>9
  <2> QED
    BY <2>n, <2>10
<1>2. ASSUME NEW n \in Nat, NEW m \in 0..n, NEW g \in Approx(n), NEW h \in Approx(m)
      PROVE  g[m] = h[m]
  <2> DEFINE Bad == {i \in 0..m : g[i] # h[i]}
  <2> SUFFICES ASSUME Bad # {} PROVE FALSE
    OBVIOUS
  <2>1. PICK i \in Bad : \A j \in Bad : i <= j
    <3>1. Bad \in SUBSET Nat
      OBVIOUS
    <3> HIDE DEF Bad
    <3> QED
      BY <3>1, LeastNat
  <2>2. i # 0
    BY <2>1
  <2>3. i \in 1..m /\ i \in 1..n /\ i - 1 \in 0..m /\ i - 1 \notin Bad
    BY <2>1, <2>2
  <2>4. g[i] = F[<<i, g[i - 1]>>] /\ h[i] = F[<<i, h[i - 1]>>]
    BY <2>3
  <2> QED
    BY <2>1, <2>3, <2>4
<1> DEFINE A(n) == CHOOSE g : g \in Approx(n)
           f == [n \in Nat |-> A(n)[n]]
<1>3. \A n \in Nat : A(n) \in Approx(n)
  BY <1>1
<1>4. f \in [Nat -> Int]
  <2>1. ASSUME NEW n \in Nat PROVE A(n)[n] \in Int
    <3>1. A(n) \in Approx(n)
      BY <1>3
    <3> HIDE DEF A
    <3>2. A(n) \in [0..n -> Int] /\ n \in 0..n
      BY <3>1
    <3> QED
      BY <3>2
  <2> HIDE DEF A
  <2> QED
    BY <2>1
<1>5. ASSUME NEW n \in Nat PROVE f[n] = IF n = 0 THEN b ELSE F[<<n, f[n - 1]>>]
  <2>1. CASE n = 0
    <3>1. A(n)[n] = b
      BY <1>3, <2>1
    <3> HIDE DEF A
    <3> QED
      BY <2>1, <3>1
  <2>2. CASE n # 0
    <3>1. n \in 1..n /\ n - 1 \in Nat /\ n - 1 \in 0..n
      BY <2>2
    <3>2. A(n)[n] = F[<<n, A(n)[n - 1]>>]
      BY <1>3, <3>1
    <3>3. A(n)[n - 1] = A(n - 1)[n - 1]
      <4>1. A(n) \in Approx(n) /\ A(n - 1) \in Approx(n - 1)
        BY <1>3, <3>1
      <4> HIDE DEF A, Approx
      <4> QED
        BY <1>2, <3>1, <4>1
    <3> HIDE DEF A
    <3>4. f[n] = A(n)[n] /\ f[n - 1] = A(n - 1)[n - 1]
      BY <3>1
    <3> QED
      BY <2>2, <3>2, <3>3, <3>4
  <2> QED
    BY <2>1, <2>2
<1> HIDE DEF f
<1> QED
  BY <1>4, <1>5
-----------------------------------------------------------------------------
(* The locks between the guesses.                                          *)

LEMMA Threshold ==
  /\ FailureThreshold \in Nat \ {0} /\ BaseLockMs \in Nat /\ MaxLockMs \in Nat
BY StoreAssumption DEF Proofs!ProofsAssumption

(* No lock is negative.                                                    *)
LEMMA DoubledIsNat == Proofs!Doubled \in [Nat -> Nat]
<1> DEFINE F == [p \in Nat \X Int |-> IF p[1] > 52 THEN p[2] ELSE 2 * p[2]]
<1>1. F \in [Nat \X Int -> Int]
  OBVIOUS
<1>2. \A n \in Nat, x \in Int : F[<<n, x>>] = IF n > 52 THEN x ELSE 2 * x
  OBVIOUS
<1> HIDE DEF F
<1>3. PICK f \in [Nat -> Int] :
        \A n \in Nat : f[n] = IF n = 0 THEN BaseLockMs ELSE F[<<n, f[n - 1]>>]
  <2>1. BaseLockMs \in Int
    BY Threshold
  <2> QED
    BY <2>1, <1>1, Recursion
<1>4. f = [n \in Nat |-> IF n = 0 THEN BaseLockMs
                         ELSE IF n > 52 THEN f[n - 1] ELSE 2 * f[n - 1]]
  <2>1. \A n \in Nat : n # 0 => f[n - 1] \in Int
    OBVIOUS
  <2>2. \A n \in Nat : n # 0 => F[<<n, f[n - 1]>>] = IF n > 52 THEN f[n - 1] ELSE 2 * f[n - 1]
    BY <1>2, <2>1
  <2> QED
    BY <1>3, <2>2
<1>5. Proofs!Doubled = [n \in Nat |-> IF n = 0 THEN BaseLockMs
         ELSE IF n > 52 THEN Proofs!Doubled[n - 1] ELSE 2 * Proofs!Doubled[n - 1]]
  BY <1>4 DEF Proofs!Doubled
<1> DEFINE Bad == {n \in Nat : Proofs!Doubled[n] \notin Nat}
<1>6. Bad = {}
  <2> SUFFICES ASSUME Bad # {} PROVE FALSE
    OBVIOUS
  <2>1. PICK n \in Bad : \A m \in Bad : n <= m
    <3>1. Bad \in SUBSET Nat
      OBVIOUS
    <3> HIDE DEF Bad
    <3> QED
      BY <3>1, LeastNat
  <2>2. n \in Nat /\ Proofs!Doubled[n] \notin Nat
    BY <2>1
  <2>3. CASE n = 0
    BY <1>5, <2>2, <2>3, Threshold
  <2>4. CASE n # 0
    <3>1. n - 1 \in Nat /\ n - 1 \notin Bad
      BY <2>1, <2>2, <2>4
    <3>2. Proofs!Doubled[n - 1] \in Nat
      BY <3>1
    <3>3. Proofs!Doubled[n] = IF n > 52 THEN Proofs!Doubled[n - 1]
                              ELSE 2 * Proofs!Doubled[n - 1]
      BY <1>5, <2>2, <2>4
    <3> QED
      BY <2>2, <3>2, <3>3
  <2> QED
    BY <2>3, <2>4
<1> QED
  <2>1. \A n \in Nat : Proofs!Doubled[n] \in Nat
    BY <1>6
  <2>2. DOMAIN Proofs!Doubled = Nat /\ Proofs!Doubled = [n \in Nat |-> Proofs!Doubled[n]]
    BY <1>5
  <2> QED
    BY <2>1, <2>2

LEMMA LockIsNat == ASSUME NEW k \in Nat \ {0} PROVE Proofs!LockMs(k) \in Nat
<1>1. Proofs!Doubled[k - 1] \in Nat
  BY DoubledIsNat
<1> QED
  BY <1>1, Threshold DEF Proofs!LockMs

(* The time that n locks take.                                             *)
LEMMA LockedTimes ==
  /\ Proofs!LockedTime[0] = 0
  /\ \A n \in Nat : Proofs!LockedTime[n] \in Int
  /\ \A n \in Nat \ {0} :
       Proofs!LockedTime[n] = Proofs!LockedTime[n - 1] + Proofs!LockMs(n) + 1
<1> DEFINE F == [p \in Nat \X Int |-> IF p[1] = 0 THEN 0 ELSE p[2] + Proofs!LockMs(p[1]) + 1]
<1>1. \A n \in Nat, x \in Int : F[<<n, x>>] = IF n = 0 THEN 0 ELSE x + Proofs!LockMs(n) + 1
  OBVIOUS
<1>2. F \in [Nat \X Int -> Int]
  <2>1. ASSUME NEW n \in Nat, NEW x \in Int
        PROVE  (IF n = 0 THEN 0 ELSE x + Proofs!LockMs(n) + 1) \in Int
    BY LockIsNat
  <2> QED
    BY <2>1
<1> HIDE DEF F
<1>3. PICK f \in [Nat -> Int] :
        \A n \in Nat : f[n] = IF n = 0 THEN 0 ELSE F[<<n, f[n - 1]>>]
  <2>1. 0 \in Int
    BY Threshold
  <2> QED
    BY <2>1, <1>2, Recursion
<1>4. f = [n \in Nat |-> IF n = 0 THEN 0 ELSE f[n - 1] + Proofs!LockMs(n) + 1]
  <2>1. \A n \in Nat : n # 0 => f[n - 1] \in Int
    OBVIOUS
  <2>2. \A n \in Nat : n # 0 => F[<<n, f[n - 1]>>] = f[n - 1] + Proofs!LockMs(n) + 1
    BY <1>1, <2>1
  <2> QED
    BY <1>3, <2>2
<1>5. Proofs!LockedTime = [n \in Nat |-> IF n = 0 THEN 0
                             ELSE Proofs!LockedTime[n - 1] + Proofs!LockMs(n) + 1]
  BY <1>4 DEF Proofs!LockedTime
<1> DEFINE Bad == {n \in Nat : Proofs!LockedTime[n] \notin Int}
<1>6. Bad = {}
  <2> SUFFICES ASSUME Bad # {} PROVE FALSE
    OBVIOUS
  <2>1. PICK n \in Bad : \A m \in Bad : n <= m
    <3>1. Bad \in SUBSET Nat
      OBVIOUS
    <3> HIDE DEF Bad
    <3> QED
      BY <3>1, LeastNat
  <2>2. n \in Nat /\ Proofs!LockedTime[n] \notin Int
    BY <2>1
  <2>3. CASE n = 0
    BY <1>5, <2>2, <2>3
  <2>4. CASE n # 0
    <3>1. n - 1 \in Nat /\ n - 1 \notin Bad
      BY <2>1, <2>2, <2>4
    <3>2. Proofs!LockedTime[n - 1] \in Int
      BY <3>1
    <3>3. Proofs!LockedTime[n] = Proofs!LockedTime[n - 1] + Proofs!LockMs(n) + 1
      BY <1>5, <2>2, <2>4
    <3>4. Proofs!LockMs(n) \in Nat
      BY <2>2, <2>4, LockIsNat
    <3> QED
      BY <2>2, <3>2, <3>3, <3>4
  <2> QED
    BY <2>3, <2>4
<1> QED
  BY <1>5, <1>6

(* Which threshold a failure belongs to.                                   *)
LEMMA Thresholds ==
  ASSUME NEW t \in Nat
  PROVE  /\ t \div FailureThreshold \in Nat
         /\ (t + 1) % FailureThreshold # 0 =>
              (t + 1) \div FailureThreshold = t \div FailureThreshold
         /\ (t + 1) % FailureThreshold = 0 =>
              (t + 1) \div FailureThreshold = t \div FailureThreshold + 1
         /\ t < FailureThreshold => t \div FailureThreshold = 0
<1> PICK d : d = FailureThreshold
  OBVIOUS
<1>d. d \in Nat /\ d > 0
  BY Threshold
<1>m. /\ \A x \in Int : x >= 1 => d * x >= d
      /\ \A x, y \in Int : d * (x - y) = d * x - d * y
  BY <1>d
<1> DEFINE q == t \div d   r == t % d   p == (t + 1) \div d   s == (t + 1) % d
<1>1. q \in Int /\ r \in Int /\ t = d * q + r /\ 0 <= r /\ r < d
  BY <1>d
<1>2. p \in Int /\ s \in Int /\ t + 1 = d * p + s /\ 0 <= s /\ s < d
  BY <1>d
<1> HIDE DEF q, r, p, s
<1>a. d * q \in Int /\ d * p \in Int /\ d * (p - q) \in Int /\ d * (q - p) \in Int
  BY <1>1, <1>2, <1>d
<1>b. d * (p - q) = d * p - d * q /\ d * (q - p) = d * q - d * p
  BY <1>1, <1>2, <1>m
<1>3. q >= 0
  <2>1. ASSUME 0 - q >= 1 PROVE FALSE
    <3>1. d * (0 - q) >= d /\ d * (0 - q) = d * 0 - d * q
      BY <1>1, <1>m, <2>1
    <3>2. d * 0 = 0
      BY <1>d
    <3> QED
      BY <1>1, <1>a, <1>d, <3>1, <3>2
  <2> QED
    BY <1>1, <2>1
<1>4. p = q \/ p = q + 1
  <2>1. ASSUME p - q >= 2 PROVE FALSE
    <3>1. d * (p - q - 1) >= d
      BY <1>1, <1>2, <1>m, <2>1
    <3>2. d * (p - q - 1) = d * (p - q) - d * 1 /\ d * 1 = d
      BY <1>1, <1>2, <1>d, <1>m
    <3> QED
      BY <1>1, <1>2, <1>a, <1>b, <1>d, <3>1, <3>2
  <2>2. ASSUME q - p >= 1 PROVE FALSE
    <3>1. d * (q - p) >= d
      BY <1>1, <1>2, <1>m, <2>2
    <3> QED
      BY <1>1, <1>2, <1>a, <1>b, <1>d, <3>1
  <2> QED
    BY <1>1, <1>2, <2>1, <2>2
<1>5. s # 0 => p = q
  <2>1. ASSUME s # 0, p = q + 1 PROVE FALSE
    <3>1. d * (p - q) = d
      BY <1>1, <1>d, <2>1
    <3> QED
      BY <1>1, <1>2, <1>a, <1>b, <1>d, <2>1, <3>1
  <2> QED
    BY <1>4, <2>1
<1>6. s = 0 => p = q + 1
  <2>1. ASSUME s = 0, p = q PROVE FALSE
    BY <1>1, <1>2, <1>a, <1>d, <2>1
  <2> QED
    BY <1>4, <2>1
<1>7. t < d => q = 0
  <2>1. ASSUME t < d, q >= 1 PROVE FALSE
    BY <1>1, <1>a, <1>d, <1>m, <2>1
  <2> QED
    BY <1>1, <1>3, <2>1
<1> QED
  BY <1>1, <1>3, <1>5, <1>6, <1>7 DEF q, r, p, s

-----------------------------------------------------------------------------
(* Counting the failures.                                                  *)

(* The last completed threshold left a lock that the next failure had to   *)
(* outlast; with it the limit on guesses is inductive.                     *)
LocksHold ==
  LET total == Proofs!TotalFailures(attempts)
  IN total >= FailureThreshold =>
       \E b \in DOMAIN attempts :
         attempts[b].lockedUntil >= Proofs!LockedTime[total \div FailureThreshold] - 1

CountInv ==
  /\ IsFiniteSet(Proofs!Recorded(attempts))
  /\ \A a \in DOMAIN attempts : attempts[a].lockedUntil \in Proofs!Times
  /\ LocksHold /\ Proofs!GuessesAreLimited

LEMMA TotalIsNat ==
  ASSUME CountInv
  PROVE  /\ Proofs!TotalFailures(attempts) = Cardinality(Proofs!Recorded(attempts))
         /\ Proofs!TotalFailures(attempts) \in Nat
<1>1. \A S : Proofs!Cardinality(S) = Cardinality(S)
  BY DEF Proofs!Cardinality, Cardinality
<1>2. IsFiniteSet(Proofs!Recorded(attempts))
  BY DEF CountInv
<1>3. Cardinality(Proofs!Recorded(attempts)) \in Nat
  BY <1>2, FS_CardinalityType
<1> QED
  BY <1>1, <1>3 DEF Proofs!TotalFailures

LEMMA StillCounts ==
  ASSUME CountInv, UNCHANGED <<attempts, now>> PROVE CountInv'
BY DEF CountInv, LocksHold, Proofs!GuessesAreLimited, Proofs!DatabaseClock

(* What a call writes that is not a failure is not counted.                *)
LEMMA QuietKeepsCount ==
  ASSUME StoreInv, CountInv, NEW a, NEW x, Writes(a, x), UNCHANGED now,
         a \in DOMAIN attempts => x.failures = attempts[a].failures
                                  /\ x.lockedUntil = attempts[a].lockedUntil,
         a \notin DOMAIN attempts => x.failures = 0 /\ x.lockedUntil = Proofs!Never
  PROVE  CountInv'
<1>1. \A b \in DOMAIN attempts :
        /\ b \in DOMAIN attempts'
        /\ attempts'[b].failures = attempts[b].failures
        /\ attempts'[b].lockedUntil = attempts[b].lockedUntil
  BY DEF Writes
<1>2. \A b \in DOMAIN attempts' \ DOMAIN attempts :
        attempts'[b].failures = 0 /\ attempts'[b].lockedUntil = Proofs!Never
  BY DEF Writes
<1>3. Proofs!Recorded(attempts') = Proofs!Recorded(attempts)
  <2>1. \A b \in DOMAIN attempts' \ DOMAIN attempts : {b} \X (1..attempts'[b].failures) = {}
    BY <1>2
  <2>2. \A b \in DOMAIN attempts :
          {b} \X (1..attempts'[b].failures) = {b} \X (1..attempts[b].failures)
    BY <1>1
  <2>3. \A p : p \in Proofs!Recorded(attempts') <=> p \in Proofs!Recorded(attempts)
    BY <1>1, <2>1, <2>2 DEF Proofs!Recorded
  <2> QED
    BY <2>3
<1>4. Proofs!TotalFailures(attempts') = Proofs!TotalFailures(attempts)
  BY <1>3 DEF Proofs!TotalFailures
<1>5. IsFiniteSet(Proofs!Recorded(attempts))'
  BY <1>3 DEF CountInv
<1>6. \A b \in DOMAIN attempts' : attempts'[b].lockedUntil \in Proofs!Times
  BY <1>1, <1>2, Nulls DEF CountInv
<1>7. LocksHold'
  BY <1>1, <1>4 DEF CountInv, LocksHold
<1>8. Proofs!GuessesAreLimited'
  BY <1>4 DEF CountInv, Proofs!GuessesAreLimited, Proofs!DatabaseClock
<1> QED
  BY <1>5, <1>6, <1>7, <1>8 DEF CountInv

(* A failure is one more, later than every lock; at a threshold it leaves  *)
(* a lock twice as long as the last.                                       *)
LEMMA FailureIsCounted ==
  ASSUME StoreInv, CountInv, UNCHANGED now, NEW a, NEW wrong \in SUBSET Proofs!Factors,
         NEW at \in Proofs!DatabaseClock,
         Proofs!Open(a, at), Proofs!RecordFailure(a, wrong, at)
  PROVE  CountInv'
<1> PICK counted : counted = Proofs!Counted(a, wrong)
  OBVIOUS
<1> PICK total : total = Proofs!TotalFailures(attempts)
  OBVIOUS
<1> PICK until : until = at + Proofs!LockMs((total + 1) \div FailureThreshold)
  OBVIOUS
<1>1. /\ a \in DOMAIN attempts /\ at \in Nat
      /\ \A b \in DOMAIN attempts : attempts[b].lockedUntil \in Int
      /\ \A b \in DOMAIN attempts : attempts[b].lockedUntil < at
      /\ \A b \in DOMAIN attempts : attempts[b].failures \in Nat
  <2>1. \A b \in DOMAIN attempts : ~(attempts[b].lockedUntil >= at)
    BY DEF Proofs!Open, Proofs!Locked
  <2>2. at \in Nat
    BY ClockIsNat DEF StoreInv
  <2>3. \A b \in DOMAIN attempts : attempts[b].lockedUntil \in Int
    BY Nulls DEF CountInv
  <2> QED
    BY <2>1, <2>2, <2>3 DEF Proofs!Open, StoreInv, IsAttempt
<1>2. /\ DOMAIN counted = DOMAIN attempts
      /\ counted[a].failures = attempts[a].failures + 1
      /\ \A b \in DOMAIN attempts \ {a} : counted[b] = attempts[b]
      /\ \A b \in DOMAIN attempts : counted[b].lockedUntil = attempts[b].lockedUntil
  <2> DEFINE y == [attempts[a] EXCEPT !.failures = @ + 1,
                     !.factorFailures = [f \in Proofs!Factors |-> @[f] + IF f \in wrong THEN 1 ELSE 0]]
  <2>1. counted = [attempts EXCEPT ![a] = y]
    BY DEF Proofs!Counted
  <2>2. y.failures = attempts[a].failures + 1 /\ y.lockedUntil = attempts[a].lockedUntil
    BY <1>1 DEF StoreInv, IsAttempt
  <2> HIDE DEF y
  <2> QED
    BY <1>1, <2>1, <2>2
<1>3. /\ Proofs!Recorded(counted)
           = Proofs!Recorded(attempts) \cup {<<a, attempts[a].failures + 1>>}
      /\ <<a, attempts[a].failures + 1>> \notin Proofs!Recorded(attempts)
  <2>1. 1..(attempts[a].failures + 1) = (1..attempts[a].failures) \cup {attempts[a].failures + 1}
        /\ attempts[a].failures + 1 \notin 1..attempts[a].failures
    BY <1>1
  <2>2. \A p : p \in Proofs!Recorded(counted) <=>
                 p \in Proofs!Recorded(attempts) \cup {<<a, attempts[a].failures + 1>>}
    BY <1>1, <1>2, <2>1 DEF Proofs!Recorded
  <2>3. <<a, attempts[a].failures + 1>> \notin Proofs!Recorded(attempts)
    BY <1>1, <2>1 DEF Proofs!Recorded
  <2> QED
    BY <2>2, <2>3
<1>4. /\ total \in Nat /\ Proofs!TotalFailures(counted) = total + 1
      /\ IsFiniteSet(Proofs!Recorded(counted))
  <2>1. total \in Nat /\ total = Cardinality(Proofs!Recorded(attempts))
    BY TotalIsNat
  <2>2. /\ IsFiniteSet(Proofs!Recorded(counted))
        /\ Cardinality(Proofs!Recorded(counted)) = total + 1
    BY <1>3, <2>1, FS_AddElement DEF CountInv
  <2>3. \A S : Proofs!Cardinality(S) = Cardinality(S)
    BY DEF Proofs!Cardinality, Cardinality
  <2> QED
    BY <2>1, <2>2, <2>3 DEF Proofs!TotalFailures
<1> DEFINE k == total \div FailureThreshold
<1>5. /\ k \in Nat
      /\ (total + 1) % FailureThreshold # 0 => (total + 1) \div FailureThreshold = k
      /\ (total + 1) % FailureThreshold = 0 => (total + 1) \div FailureThreshold = k + 1
      /\ total < FailureThreshold => k = 0
  BY <1>4, Thresholds
<1> HIDE DEF k
<1>6. Proofs!LockedTime[k] \in Int /\ Proofs!LockedTime[k] <= at
  <2>1. Proofs!LockedTime[k] \in Int
    BY <1>5, LockedTimes
  <2>2. CASE total < FailureThreshold
    BY <1>1, <1>5, <2>2, LockedTimes
  <2>3. CASE total >= FailureThreshold
    <3>1. PICK b \in DOMAIN attempts : attempts[b].lockedUntil >= Proofs!LockedTime[k] - 1
      BY <2>3 DEF CountInv, LocksHold, k
    <3> QED
      BY <1>1, <2>1, <3>1
  <2> QED
    BY <1>4, <2>1, <2>2, <2>3, Threshold
<1>7. \/ /\ (total + 1) % FailureThreshold # 0 /\ attempts' = counted
      \/ /\ (total + 1) % FailureThreshold = 0
         /\ attempts' = [counted EXCEPT ![a].lockedUntil = until]
  BY <1>4 DEF Proofs!RecordFailure
<1>8. /\ DOMAIN attempts' = DOMAIN attempts
      /\ \A b \in DOMAIN attempts : attempts'[b].failures = counted[b].failures
      /\ \A b \in DOMAIN attempts \ {a} : attempts'[b] = attempts[b]
      /\ (total + 1) % FailureThreshold # 0 =>
           \A b \in DOMAIN attempts : attempts'[b].lockedUntil = attempts[b].lockedUntil
      /\ (total + 1) % FailureThreshold = 0 => attempts'[a].lockedUntil = until
  <2>1. CASE attempts' = counted /\ (total + 1) % FailureThreshold # 0
    BY <1>2, <2>1
  <2>2. CASE attempts' = [counted EXCEPT ![a].lockedUntil = until]
             /\ (total + 1) % FailureThreshold = 0
    <3> PICK z : z = counted[a]
      OBVIOUS
    <3>1. counted[a] = [attempts[a] EXCEPT !.failures = @ + 1,
                     !.factorFailures = [f \in Proofs!Factors |-> @[f] + IF f \in wrong THEN 1 ELSE 0]]
      BY <1>1 DEF Proofs!Counted
    <3>2. "lockedUntil" \in DOMAIN z /\ "failures" \in DOMAIN z
      BY <1>1, <3>1 DEF StoreInv, IsAttempt
    <3>3. attempts' = [counted EXCEPT ![a] = [z EXCEPT !.lockedUntil = until]]
      BY <2>2
    <3>4. attempts'[a] = [z EXCEPT !.lockedUntil = until]
      BY <1>1, <1>2, <3>3
    <3>5. attempts'[a].lockedUntil = until /\ attempts'[a].failures = z.failures
      BY <3>2, <3>4
    <3> QED
      BY <1>1, <1>2, <2>2, <3>3, <3>5
  <2> QED
    BY <1>7, <2>1, <2>2
<1>9. Proofs!TotalFailures(attempts') = total + 1 /\ IsFiniteSet(Proofs!Recorded(attempts'))
  <2>1. Proofs!Recorded(attempts') = Proofs!Recorded(counted)
    BY <1>2, <1>8 DEF Proofs!Recorded
  <2> QED
    BY <1>4, <2>1 DEF Proofs!TotalFailures
<1>10. (total + 1) % FailureThreshold = 0 =>
         /\ until \in Nat
         /\ until >= Proofs!LockedTime[k + 1] - 1
  <2> SUFFICES ASSUME (total + 1) % FailureThreshold = 0
               PROVE  until \in Nat /\ until >= Proofs!LockedTime[k + 1] - 1
    OBVIOUS
  <2>1. k + 1 \in Nat \ {0} /\ (k + 1) - 1 = k /\ until = at + Proofs!LockMs(k + 1)
    BY <1>5
  <2>2. Proofs!LockedTime[k + 1] = Proofs!LockedTime[k] + Proofs!LockMs(k + 1) + 1
    BY <2>1, LockedTimes
  <2>3. Proofs!LockMs(k + 1) \in Nat
    BY <2>1, LockIsNat
  <2> QED
    BY <1>1, <1>6, <2>1, <2>2, <2>3
<1>11. \A b \in DOMAIN attempts' : attempts'[b].lockedUntil \in Proofs!Times
  BY <1>1, <1>8, <1>10, Nulls DEF CountInv
<1>12. LocksHold'
  <2> SUFFICES ASSUME total + 1 >= FailureThreshold
               PROVE  \E b \in DOMAIN attempts' : attempts'[b].lockedUntil
                        >= Proofs!LockedTime[(total + 1) \div FailureThreshold] - 1
    BY <1>9 DEF LocksHold
  <2>1. CASE (total + 1) % FailureThreshold = 0
    BY <1>1, <1>5, <1>8, <1>10, <2>1
  <2>2. CASE (total + 1) % FailureThreshold # 0
    <3>1. total >= FailureThreshold
      <4>1. total + 1 # FailureThreshold
        BY <2>2, Threshold
      <4> QED
        BY <1>4, <4>1, Threshold
    <3>2. PICK b \in DOMAIN attempts : attempts[b].lockedUntil >= Proofs!LockedTime[k] - 1
      BY <3>1 DEF CountInv, LocksHold, k
    <3> QED
      BY <1>5, <1>8, <2>2, <3>2
  <2> QED
    BY <2>1, <2>2
<1>13. Proofs!GuessesAreLimited'
  <2>1. at \in Proofs!DatabaseClock'
    BY DEF Proofs!DatabaseClock
  <2>2. (total + 1) - 1 = total
    BY <1>4
  <2> QED
    BY <1>6, <1>9, <2>1, <2>2 DEF Proofs!GuessesAreLimited, k
<1>14. IsFiniteSet(Proofs!Recorded(attempts))'
  BY <1>9
<1> QED
  BY <1>11, <1>12, <1>13, <1>14 DEF CountInv

LEMMA CallCounts ==
  ASSUME StoreInv, CountInv, UNCHANGED now,
         NEW a \in AttemptIds, NEW at \in Proofs!DatabaseClock, Call(a, at)
  PROVE  CountInv'
<1>0. \A b \in DOMAIN attempts : IsAttempt(attempts[b])
  BY DEF StoreInv
<1>1. ASSUME NEW factor \in Proofs!Factors, NEW expiresAt \in Expiries,
             Proofs!Issue(a, factor, expiresAt, at)
      PROVE  CountInv'
  <2> PICK old : old = (IF a \in DOMAIN attempts THEN attempts[a] ELSE Proofs!NewAttempt(expiresAt))
    OBVIOUS
  <2> PICK x : x = [old EXCEPT !.issued = @ \cup {factor}]
    OBVIOUS
  <2>1. Writes(a, x)
    BY <1>1 DEF Proofs!Issue, Writes
  <2>2. x.failures = old.failures /\ x.lockedUntil = old.lockedUntil
    BY <1>0 DEF IsAttempt, Proofs!NewAttempt
  <2>3. a \notin DOMAIN attempts => old.failures = 0 /\ old.lockedUntil = Proofs!Never
    BY DEF Proofs!NewAttempt
  <2> QED
    BY <2>1, <2>2, <2>3, QuietKeepsCount
<1>2. ASSUME NEW wrong \in SUBSET Proofs!Factors,
             \/ Proofs!RefuseConsume(a, wrong, at)
             \/ \E t \in Int : Proofs!RefuseAccept(a, wrong, at, t)
      PROVE  CountInv'
  <2>1. Proofs!Open(a, at) /\ Proofs!RecordFailure(a, wrong, at)
    BY <1>2 DEF Proofs!RefuseConsume, Proofs!RefuseAccept, Proofs!Consumable,
                Proofs!Acceptable
  <2> QED
    BY <2>1, FailureIsCounted
<1>3. CASE Proofs!Consume(a, at)
  <2>1. a \in DOMAIN attempts /\ attempts' = [attempts EXCEPT ![a].consumedAt = at]
    BY <1>3 DEF Proofs!Consume, Proofs!Consumable, Proofs!Open
  <2> PICK x : x = [attempts[a] EXCEPT !.consumedAt = at]
    OBVIOUS
  <2>2. Writes(a, x)
    BY <2>1 DEF Writes
  <2>3. x.failures = attempts[a].failures /\ x.lockedUntil = attempts[a].lockedUntil
    BY <1>0, <2>1 DEF IsAttempt
  <2> QED
    BY <2>1, <2>2, <2>3, QuietKeepsCount
<1>4. CASE \E t \in Int : Proofs!Accept(a, at, t)
  <2>1. a \in DOMAIN attempts /\ attempts' = [attempts EXCEPT ![a].acceptedAt = at]
    BY <1>4 DEF Proofs!Accept, Proofs!Acceptable, Proofs!Open
  <2> PICK x : x = [attempts[a] EXCEPT !.acceptedAt = at]
    OBVIOUS
  <2>2. Writes(a, x)
    BY <2>1 DEF Writes
  <2>3. x.failures = attempts[a].failures /\ x.lockedUntil = attempts[a].lockedUntil
    BY <1>0, <2>1 DEF IsAttempt
  <2> QED
    BY <2>1, <2>2, <2>3, QuietKeepsCount
<1>5. CASE Proofs!Cancel(a, at)
  <2>1. CASE UNCHANGED attempts
    BY <2>1, StillCounts
  <2>2. CASE a \in DOMAIN attempts /\ attempts' = [attempts EXCEPT ![a].cancelledAt = at]
    <3> PICK x : x = [attempts[a] EXCEPT !.cancelledAt = at]
      OBVIOUS
    <3>2. Writes(a, x)
      BY <2>2 DEF Writes
    <3>3. x.failures = attempts[a].failures /\ x.lockedUntil = attempts[a].lockedUntil
      BY <1>0, <2>2 DEF IsAttempt
    <3> QED
      BY <2>2, <3>2, <3>3, QuietKeepsCount
  <2> QED
    BY <1>5, <2>1, <2>2 DEF Proofs!Cancel
<1> QED
  BY <1>1, <1>2, <1>3, <1>4, <1>5 DEF Call

(* While the clock stands or ticks, what was limited stays limited.        *)
LEMMA TickCounts ==
  ASSUME StoreInv, CountInv, Proofs!Tick
  PROVE  CountInv'
<1>1. UNCHANGED attempts /\ now' = now + 1 /\ now \in Nat
  BY DEF Proofs!Tick, StoreInv
<1>2. Proofs!GuessesAreLimited'
  <2> SUFFICES ASSUME Proofs!TotalFailures(attempts) > 0
               PROVE  \E at \in Proofs!DatabaseClock' : at >= Proofs!LockedTime[
                        (Proofs!TotalFailures(attempts) - 1) \div FailureThreshold]
    BY <1>1 DEF Proofs!GuessesAreLimited
  <2>1. PICK at \in Proofs!DatabaseClock :
          at >= Proofs!LockedTime[(Proofs!TotalFailures(attempts) - 1) \div FailureThreshold]
    BY DEF CountInv, Proofs!GuessesAreLimited
  <2>2. at \in Nat /\ at + 1 \in Proofs!DatabaseClock'
    <3>1. PICK skew \in DatabaseSkews : at = now + skew
      BY <2>1 DEF Proofs!DatabaseClock
    <3>2. skew \in Nat
      BY StoreAssumption DEF Proofs!ProofsAssumption
    <3>3. at \in Nat /\ at + 1 = now' + skew
      BY <1>1, <3>1, <3>2
    <3> QED
      BY <3>3 DEF Proofs!DatabaseClock
  <2>3. (Proofs!TotalFailures(attempts) - 1) \div FailureThreshold \in Nat
    <3>1. Proofs!TotalFailures(attempts) \in Nat
      BY TotalIsNat
    <3>2. Proofs!TotalFailures(attempts) - 1 \in Nat
      BY <3>1
    <3> QED
      BY <3>2, Thresholds
  <2>4. Proofs!LockedTime[(Proofs!TotalFailures(attempts) - 1) \div FailureThreshold] \in Int
    BY <2>3, LockedTimes
  <2> QED
    BY <2>1, <2>2, <2>4
<1>3. LocksHold' /\ IsFiniteSet(Proofs!Recorded(attempts))'
      /\ \A a \in DOMAIN attempts' : attempts'[a].lockedUntil \in Proofs!Times
  BY <1>1 DEF CountInv, LocksHold
<1> QED
  BY <1>2, <1>3 DEF CountInv

LEMMA MovesKeepCount ==
  ASSUME StoreInv, CountInv, Moves PROVE CountInv'
BY StillCounts, TickCounts, CallCounts DEF Moves

LEMMA CountInit ==
  ASSUME Proofs!ProofsInit PROVE CountInv
<1>1. DOMAIN attempts = {}
  BY DEF Proofs!ProofsInit
<1>2. Proofs!Recorded(attempts) = {}
  BY <1>1 DEF Proofs!Recorded
<1>3. IsFiniteSet({}) /\ Cardinality({}) = 0
  BY FS_EmptySet
<1>4. \A S : Proofs!Cardinality(S) = Cardinality(S)
  BY DEF Proofs!Cardinality, Cardinality
<1>5. Proofs!TotalFailures(attempts) = 0
  BY <1>2, <1>3, <1>4 DEF Proofs!TotalFailures
<1> QED
  BY <1>1, <1>2, <1>3, <1>5, Threshold DEF CountInv, LocksHold, Proofs!GuessesAreLimited

LEMMA StoreTypes == StoreInv /\ CountInv => Proofs!ProofsTypeOK
<1> SUFFICES ASSUME StoreInv, CountInv, NEW a \in DOMAIN attempts
             PROVE  attempts[a] \in Proofs!Attempts
  BY DEF StoreInv, Proofs!ProofsTypeOK
<1>1. IsAttempt(attempts[a]) /\ attempts[a].lockedUntil \in Proofs!Times
  BY DEF StoreInv, CountInv
<1> QED
  BY <1>1 DEF IsAttempt, Proofs!Attempts

(* Guessing is slowed down over all attempts of the Owner, whoever calls   *)
(* the store and however its clock is set: no more failures are recorded   *)
(* than the locks between them, each twice the last, leave time for        *)
(* (recordRecoveryProofFailure).                                           *)
THEOREM GuessesStayLimited ==
  Proofs!ProofsSpec => [](Proofs!GuessesAreLimited /\ Proofs!ProofsTypeOK)
<1> DEFINE Inv == StoreInv /\ CountInv
<1>1. Proofs!ProofsInit => Inv
  BY StoreInit, CountInit
<1>2. Inv /\ [Proofs!ProofsNext]_(Proofs!proofVars) => Inv'
  BY StoreMoves, MovesKeepStore, MovesKeepCount
<1>3. Inv => Proofs!GuessesAreLimited /\ Proofs!ProofsTypeOK
  BY StoreTypes DEF CountInv
<1> HIDE DEF Inv
<1> QED
  BY <1>1, <1>2, <1>3, PTL DEF Proofs!ProofsSpec

-----------------------------------------------------------------------------
(* The identity.                                                           *)

IdentityTypes ==
  /\ securityRevision \in Nat \ {0} /\ sessionEpoch \in Nat \ {0}
  /\ verifiedChannelRef \in ChannelRefs
  /\ DOMAIN credentials \subseteq CredentialIds
  /\ \A c \in DOMAIN credentials : credentials[c] \in Statuses
  /\ DOMAIN sessions \subseteq SessionIds
  /\ \A s \in DOMAIN sessions : sessions[s] \in Sessions
  /\ recovery \in Recoveries \cup {NotPending}
  /\ verifiedChannelChange \in Changes \cup {NotPending}
  /\ DOMAIN processed \subseteq CommandKeys
  /\ \A k \in DOMAIN processed : processed[k] \in Fingerprints

(* Every deadline is where the policy puts it.                             *)
DeadlinesAreThePolicys ==
  /\ \A s \in DOMAIN sessions :
       sessions[s].expiresAt = sessions[s].authenticatedAt + SessionLifetimeMs
  /\ recovery # NotPending =>
       recovery.readyAt = recovery.startedAt + RecoveryCoolingOffMs
  /\ verifiedChannelChange # NotPending =>
       verifiedChannelChange.readyAt =
         verifiedChannelChange.startedAt + ChannelChangeCoolingOffMs

(* The inductive invariant.  RecoveryMatchesProofs needs the store's own:  *)
(* only a coherent attempt, all of whose factors are issued, stays as it   *)
(* was accepted when a proof is issued again.                              *)
IInv ==
  /\ StoreInv /\ IdentityTypes /\ DeadlinesAreThePolicys
  /\ SessionsAreBacked /\ RecoveryMatchesProofs

LEMMA WithIs ==
  ASSUME NEW f, NEW x, NEW y
  PROVE  /\ DOMAIN With(f, x, y) = DOMAIN f \cup {x}
         /\ With(f, x, y)[x] = y
         /\ \A z \in DOMAIN f \ {x} : With(f, x, y)[z] = f[z]
BY DEF With

LEMMA RevokeIs ==
  ASSUME IdentityTypes, NEW ended
  PROVE  /\ DOMAIN Revoke(ended) = DOMAIN sessions
         /\ \A s \in DOMAIN sessions :
              /\ Revoke(ended)[s] \in Sessions
              /\ Revoke(ended)[s].credentialId = sessions[s].credentialId
              /\ Revoke(ended)[s].authenticatedAt = sessions[s].authenticatedAt
              /\ Revoke(ended)[s].expiresAt = sessions[s].expiresAt
              /\ Revoke(ended)[s].sessionEpoch = sessions[s].sessionEpoch
              /\ s \in ended => Revoke(ended)[s].revoked = TRUE
              /\ s \notin ended => Revoke(ended)[s].revoked = sessions[s].revoked
BY DEF Revoke, IdentityTypes, Sessions

(* What the policy's assumptions make of the durations.                    *)
LEMMA Durations ==
  /\ RecoveryCoolingOffMs \in Nat /\ ChannelChangeCoolingOffMs \in Nat
  /\ SessionLifetimeMs \in Nat /\ RecentAuthenticationWindowMs \in Nat
  /\ MaxSafe \in Nat
BY PolicyAssumption, StoreAssumption DEF Proofs!ProofsAssumption


(* Every step of the identity is one of these.                             *)
SignsIn ==
  \E c \in CredentialIds, s \in SessionIds, replaced \in SUBSET DOMAIN sessions :
    Authenticate(c, s, replaced)
Commands(key, actor) ==
  \/ \E c \in CredentialIds : AddCredential(key, actor, c)
  \/ \E c \in CredentialIds : RevokeCredential(key, actor, c)
  \/ \E target \in SessionIds : RevokeSession(key, actor, target)
  \/ \E at \in Proofs!DatabaseClock : CancelRecovery(key, actor, at)
  \/ \E next \in ChannelRefs : BeginVerifiedChannelChange(key, actor, next)
  \/ CompleteVerifiedChannelChange(key, actor)
  \/ CancelVerifiedChannelChange(key, actor)
Recovers(a, at) ==
  \/ \E key \in CommandKeys : BeginRecovery(key, a, at)
  \/ \E key \in CommandKeys, c \in CredentialIds : CompleteRecovery(key, a, c, at)
Denies(a, at) ==
  \E wrong \in SUBSET Proofs!Factors :
    BeginRecoveryDenied(a, wrong, at) \/ CompleteRecoveryDenied(a, wrong, at)
Issues(a, at) ==
  \E factor \in Proofs!Factors, expiresAt \in Expiries :
    IssueProof(a, factor, expiresAt, at)

LEMMA StepCases ==
  ASSUME [Next]_vars
  PROVE  \/ SignsIn
         \/ \E key \in CommandKeys, actor \in SessionIds : Commands(key, actor)
         \/ \E a \in AttemptIds, at \in Proofs!DatabaseClock :
              Recovers(a, at) \/ Denies(a, at) \/ Issues(a, at)
         \/ Tick
         \/ UNCHANGED vars
<1>1. ASSUME NEW key \in CommandKeys, NEW actor \in SessionIds, SessionCommand(key, actor)
      PROVE  Commands(key, actor)
  BY <1>1 DEF SessionCommand, Commands
<1>2. ASSUME NEW key \in CommandKeys, NEW a \in AttemptIds, NEW at \in Proofs!DatabaseClock,
             RecoveryCommand(key, a, at)
      PROVE  Recovers(a, at)
  BY <1>2 DEF RecoveryCommand, Recovers
<1>3. ASSUME NEW a \in AttemptIds, NEW at \in Proofs!DatabaseClock,
             \/ RecoveryDenied(a, at)
             \/ \E factor \in Proofs!Factors, expiresAt \in Expiries :
                  IssueProof(a, factor, expiresAt, at)
      PROVE  Denies(a, at) \/ Issues(a, at)
  BY <1>3 DEF RecoveryDenied, Denies, Issues
<1> QED
  BY <1>1, <1>2, <1>3 DEF Next, SignsIn

(* What an identity's step does to the store.                              *)
LEMMA IdentityMoves ==
  ASSUME IInv, [Next]_vars
  PROVE  Moves
<1>0. now \in Nat
  BY DEF IInv, StoreInv
<1>1. ASSUME NEW a \in AttemptIds, NEW at \in Proofs!DatabaseClock, Call(a, at),
             UNCHANGED now
      PROVE  Moves
  BY <1>1 DEF Moves
<1>3. RecoveryReadyAt \in Int
  BY <1>0, Durations DEF RecoveryReadyAt
<1>4. CASE SignsIn
  BY <1>4 DEF SignsIn, Authenticate, Moves
<1>5. ASSUME NEW key \in CommandKeys, NEW actor \in SessionIds, Commands(key, actor)
      PROVE  Moves
  <2>1. ASSUME NEW at \in Proofs!DatabaseClock, CancelRecovery(key, actor, at)
        PROVE  Moves
    <3>1. recovery.attemptId \in AttemptIds
      BY <2>1 DEF CancelRecovery, IInv, RecoveryMatchesProofs, StoreInv
    <3>2. Call(recovery.attemptId, at) /\ UNCHANGED now
      BY <2>1 DEF CancelRecovery, Execute, Call
    <3> QED
      BY <1>1, <3>1, <3>2
  <2>2. CASE \E at \in Proofs!DatabaseClock : CancelRecovery(key, actor, at)
    BY <2>1, <2>2
  <2>3. CASE ~ \E at \in Proofs!DatabaseClock : CancelRecovery(key, actor, at)
    <3>1. UNCHANGED <<attempts, now>>
      BY <1>5, <2>3 DEF Commands, Execute, AddCredential, RevokeCredential, RevokeSession,
           BeginVerifiedChannelChange, CompleteVerifiedChannelChange,
           CancelVerifiedChannelChange
    <3> QED
      BY <3>1 DEF Moves
  <2> QED
    BY <2>2, <2>3
<1>6. ASSUME NEW a \in AttemptIds, NEW at \in Proofs!DatabaseClock,
             Recovers(a, at) \/ Denies(a, at) \/ Issues(a, at)
      PROVE  Moves
  <2>1. UNCHANGED now
    BY <1>6 DEF Recovers, Denies, Issues, BeginRecovery, CompleteRecovery, Execute,
         BeginRecoveryDenied, CompleteRecoveryDenied, IssueProof
  <2>2. Call(a, at)
    BY <1>3, <1>6 DEF Recovers, Denies, Issues, BeginRecovery, CompleteRecovery,
         BeginRecoveryDenied, CompleteRecoveryDenied, IssueProof, Call
  <2> QED
    BY <1>1, <2>1, <2>2
<1>7. CASE Tick
  BY <1>7 DEF Tick, Moves
<1>8. CASE UNCHANGED vars
  BY <1>8 DEF vars, Moves
<1> QED
  BY <1>4, <1>5, <1>6, <1>7, <1>8, StepCases

(* The store's share of the invariant.                                     *)
LEMMA IdentityKeepsStore ==
  ASSUME IInv, [Next]_vars
  PROVE  StoreInv' /\ [Proofs!TerminalStep]_attempts /\ now' \in Nat
BY IdentityMoves, MovesKeepStore DEF IInv

(* The identity's own records.                                             *)
IdentityOK == IdentityTypes /\ DeadlinesAreThePolicys

LEMMA ExecuteTypes ==
  ASSUME IdentityTypes, NEW key \in CommandKeys, NEW type \in CommandTypes,
         Execute(key, type)
  PROVE  /\ securityRevision' \in Nat \ {0}
         /\ DOMAIN processed' \subseteq CommandKeys
         /\ \A k \in DOMAIN processed' : processed'[k] \in Fingerprints
<1> PICK entry : entry = [type |-> type, resultRevision |-> securityRevision + 1]
  OBVIOUS
<1>1. securityRevision + 1 \in Nat \ {0}
  BY DEF IdentityTypes
<1>2. entry \in Fingerprints
  BY <1>1 DEF Fingerprints
<1>3. processed' = With(processed, key, entry)
  BY DEF Execute
<1> QED
  BY <1>1, <1>2, <1>3 DEF Execute, IdentityTypes, With

LEMMA StatusFacts == "active" \in Statuses /\ "revoked" \in Statuses
BY DEF Statuses

LEMMA TypeNames ==
  {"ADD_CREDENTIAL", "REVOKE_SESSION", "REVOKE_CREDENTIAL", "BEGIN_RECOVERY",
   "CANCEL_RECOVERY", "COMPLETE_RECOVERY", "BEGIN_VERIFIED_CHANNEL_CHANGE",
   "COMPLETE_VERIFIED_CHANNEL_CHANGE", "CANCEL_VERIFIED_CHANNEL_CHANGE"}
    \subseteq CommandTypes
BY DEF CommandTypes

(* Sessions may be revoked, and one issued with the policy's lifetime.     *)
SessionsOK ==
  /\ DOMAIN sessions \subseteq SessionIds
  /\ \A s \in DOMAIN sessions :
       /\ sessions[s] \in Sessions
       /\ sessions[s].expiresAt = sessions[s].authenticatedAt + SessionLifetimeMs
CredentialsOK ==
  /\ DOMAIN credentials \subseteq CredentialIds
  /\ \A c \in DOMAIN credentials : credentials[c] \in Statuses
RecoveryOK ==
  /\ recovery \in Recoveries \cup {NotPending}
  /\ recovery # NotPending =>
       recovery.readyAt = recovery.startedAt + RecoveryCoolingOffMs
ChangeOK ==
  /\ verifiedChannelChange \in Changes \cup {NotPending}
  /\ verifiedChannelChange # NotPending =>
       verifiedChannelChange.readyAt =
         verifiedChannelChange.startedAt + ChannelChangeCoolingOffMs

LEMMA IdentityParts ==
  /\ IdentityOK =>
       /\ IdentityTypes /\ SessionsOK /\ CredentialsOK /\ RecoveryOK /\ ChangeOK
       /\ securityRevision \in Nat \ {0} /\ sessionEpoch \in Nat \ {0}
       /\ verifiedChannelRef \in ChannelRefs
       /\ DOMAIN processed \subseteq CommandKeys
       /\ \A k \in DOMAIN processed : processed[k] \in Fingerprints
  /\ SessionsOK' /\ CredentialsOK' /\ RecoveryOK' /\ ChangeOK'
       /\ securityRevision' \in Nat \ {0} /\ sessionEpoch' \in Nat \ {0}
       /\ verifiedChannelRef' \in ChannelRefs
       /\ DOMAIN processed' \subseteq CommandKeys
       /\ (\A k \in DOMAIN processed' : processed'[k] \in Fingerprints)
       => IdentityOK'
BY DEF IdentityOK, IdentityTypes, DeadlinesAreThePolicys, SessionsOK, CredentialsOK,
       RecoveryOK, ChangeOK

LEMMA RevokeOK ==
  ASSUME IdentityOK, NEW ended, sessions' = Revoke(ended)
  PROVE  SessionsOK'
<1>1. SessionsOK /\ IdentityTypes
  BY IdentityParts
<1>2. /\ DOMAIN sessions' = DOMAIN sessions
      /\ \A s \in DOMAIN sessions :
           /\ sessions'[s] \in Sessions
           /\ sessions'[s].authenticatedAt = sessions[s].authenticatedAt
           /\ sessions'[s].expiresAt = sessions[s].expiresAt
  BY <1>1, RevokeIs
<1> QED
  BY <1>1, <1>2 DEF SessionsOK

LEMMA AuthenticateOK ==
  ASSUME IdentityOK, now \in Nat, NEW c \in CredentialIds, NEW s \in SessionIds,
         NEW replaced, Authenticate(c, s, replaced)
  PROVE  SessionsOK'
<1> PICK fresh : fresh = [credentialId |-> c, authenticatedAt |-> now,
                          expiresAt |-> now + SessionLifetimeMs,
                          sessionEpoch |-> sessionEpoch, revoked |-> FALSE]
  OBVIOUS
<1>1. now + SessionLifetimeMs \in 0..MaxSafe
  BY Durations DEF Authenticate, CanAdd
<1>2. sessionEpoch \in Nat
  BY DEF IdentityOK, IdentityTypes
<1>3. fresh \in Sessions /\ fresh.expiresAt = fresh.authenticatedAt + SessionLifetimeMs
  BY <1>1, <1>2 DEF Sessions
<1>4. sessions' = With(Revoke(replaced), s, fresh)
  BY DEF Authenticate
<1>5. /\ DOMAIN Revoke(replaced) \subseteq SessionIds
      /\ \A r \in DOMAIN Revoke(replaced) :
           /\ Revoke(replaced)[r] \in Sessions
           /\ Revoke(replaced)[r].expiresAt =
                Revoke(replaced)[r].authenticatedAt + SessionLifetimeMs
  <2>1. IdentityTypes /\ SessionsOK
    BY IdentityParts
  <2>2. /\ DOMAIN Revoke(replaced) = DOMAIN sessions
        /\ \A r \in DOMAIN sessions :
             /\ Revoke(replaced)[r] \in Sessions
             /\ Revoke(replaced)[r].authenticatedAt = sessions[r].authenticatedAt
             /\ Revoke(replaced)[r].expiresAt = sessions[r].expiresAt
    BY <2>1, RevokeIs
  <2> QED
    BY <2>1, <2>2 DEF SessionsOK
<1> QED
  BY <1>3, <1>4, <1>5 DEF SessionsOK, With

LEMMA BeginRecoveryOK ==
  ASSUME IdentityOK, now \in Nat, NEW key \in CommandKeys, NEW a \in AttemptIds, NEW at,
         BeginRecovery(key, a, at)
  PROVE  RecoveryOK'
<1>1. now + RecoveryCoolingOffMs \in 0..MaxSafe
  BY Durations DEF BeginRecovery, CanAdd
<1>2. recovery' \in Recoveries
  BY <1>1 DEF BeginRecovery, RecoveryReadyAt, Recoveries
<1>3. recovery'.readyAt = recovery'.startedAt + RecoveryCoolingOffMs
  BY DEF BeginRecovery, RecoveryReadyAt
<1> QED
  BY <1>2, <1>3 DEF RecoveryOK

LEMMA BeginChangeOK ==
  ASSUME IdentityOK, now \in Nat, NEW key \in CommandKeys, NEW actor, NEW next \in ChannelRefs,
         BeginVerifiedChannelChange(key, actor, next)
  PROVE  ChangeOK'
<1>1. now + ChannelChangeCoolingOffMs \in 0..MaxSafe
  BY Durations DEF BeginVerifiedChannelChange, CanAdd
<1>2. verifiedChannelRef \in ChannelRefs
  BY IdentityParts
<1>3. verifiedChannelChange' \in Changes
  BY <1>1, <1>2 DEF BeginVerifiedChannelChange, Changes
<1>4. verifiedChannelChange'.readyAt =
        verifiedChannelChange'.startedAt + ChannelChangeCoolingOffMs
  BY DEF BeginVerifiedChannelChange
<1> QED
  BY <1>3, <1>4 DEF ChangeOK

LEMMA NextIdentityOK ==
  ASSUME IdentityOK, now \in Nat, [Next]_vars
  PROVE  IdentityOK'
<1> DEFINE Spent == /\ securityRevision' \in Nat \ {0}
                    /\ DOMAIN processed' \subseteq CommandKeys
                    /\ \A k \in DOMAIN processed' : processed'[k] \in Fingerprints
<1>p. UNCHANGED <<securityRevision, processed>> => Spent
  BY IdentityParts
<1>r. RecoveryOK /\ (recovery' = recovery \/ recovery' = NotPending => RecoveryOK')
  BY IdentityParts DEF RecoveryOK
<1>v. /\ verifiedChannelChange' = verifiedChannelChange
           \/ verifiedChannelChange' = NotPending => ChangeOK'
  BY IdentityParts DEF ChangeOK
<1>s. UNCHANGED sessions => SessionsOK'
  BY IdentityParts DEF SessionsOK
<1>c. UNCHANGED credentials => CredentialsOK'
  BY IdentityParts DEF CredentialsOK
<1>k. ASSUME NEW key \in CommandKeys, NEW type \in CommandTypes, Execute(key, type)
      PROVE  Spent
  BY <1>k, ExecuteTypes, IdentityParts
<1>e. /\ sessionEpoch \in Nat \ {0} /\ sessionEpoch + 1 \in Nat \ {0}
      /\ verifiedChannelRef \in ChannelRefs
  BY IdentityParts
<1> HIDE DEF Spent
<1>q. Spent /\ SessionsOK' /\ CredentialsOK' /\ RecoveryOK' /\ ChangeOK'
        /\ sessionEpoch' \in Nat \ {0} /\ verifiedChannelRef' \in ChannelRefs
        => IdentityOK'
  BY IdentityParts DEF Spent
<1>1. ASSUME NEW c \in CredentialIds, NEW s \in SessionIds, NEW replaced,
             Authenticate(c, s, replaced)
      PROVE  IdentityOK'
  <2>1. SessionsOK'
    BY <1>1, AuthenticateOK
  <2>2. UNCHANGED <<securityRevision, sessionEpoch, verifiedChannelRef, credentials,
                    recovery, verifiedChannelChange, processed>>
    BY <1>1 DEF Authenticate
  <2> QED
    BY <1>p, <1>r, <1>v, <1>c, <1>e, <1>q, <2>1, <2>2
<1>2. ASSUME NEW key \in CommandKeys, NEW actor \in SessionIds, Commands(key, actor)
      PROVE  IdentityOK'
  <2>1. ASSUME NEW c \in CredentialIds, AddCredential(key, actor, c) PROVE IdentityOK'
    <3>1. Spent
      BY <1>k, <2>1, TypeNames DEF AddCredential
    <3>2. CredentialsOK'
      BY <2>1, StatusFacts, IdentityParts DEF AddCredential, CredentialsOK, With
    <3>3. UNCHANGED <<sessionEpoch, verifiedChannelRef, sessions, recovery,
                      verifiedChannelChange>>
      BY <2>1 DEF AddCredential
    <3> QED
      BY <1>r, <1>v, <1>s, <1>e, <1>q, <3>1, <3>2, <3>3
  <2>2. ASSUME NEW c \in CredentialIds, RevokeCredential(key, actor, c) PROVE IdentityOK'
    <3>1. Spent
      BY <1>k, <2>2, TypeNames DEF RevokeCredential
    <3>2. CredentialsOK'
      BY <2>2, StatusFacts, IdentityParts DEF RevokeCredential, CredentialsOK
    <3>3. SessionsOK'
      BY <2>2, RevokeOK DEF RevokeCredential, RevokeCredentialSessions
    <3>4. UNCHANGED <<sessionEpoch, verifiedChannelRef, recovery, verifiedChannelChange>>
      BY <2>2 DEF RevokeCredential
    <3> QED
      BY <1>r, <1>v, <1>e, <1>q, <3>1, <3>2, <3>3, <3>4
  <2>3. ASSUME NEW target \in SessionIds, RevokeSession(key, actor, target)
        PROVE  IdentityOK'
    <3>1. Spent
      BY <1>k, <2>3, TypeNames DEF RevokeSession
    <3>2. SessionsOK'
      BY <2>3, RevokeOK DEF RevokeSession
    <3>3. UNCHANGED <<sessionEpoch, verifiedChannelRef, credentials, recovery,
                      verifiedChannelChange>>
      BY <2>3 DEF RevokeSession
    <3> QED
      BY <1>r, <1>v, <1>c, <1>e, <1>q, <3>1, <3>2, <3>3
  <2>4. ASSUME NEW at, CancelRecovery(key, actor, at) PROVE IdentityOK'
    <3>1. Spent
      BY <1>k, <2>4, TypeNames DEF CancelRecovery
    <3>2. recovery' = NotPending /\ UNCHANGED <<sessionEpoch, verifiedChannelRef,
            credentials, sessions, verifiedChannelChange>>
      BY <2>4 DEF CancelRecovery
    <3> QED
      BY <1>r, <1>v, <1>s, <1>c, <1>e, <1>q, <3>1, <3>2
  <2>5. ASSUME NEW next \in ChannelRefs, BeginVerifiedChannelChange(key, actor, next)
        PROVE  IdentityOK'
    <3>1. Spent
      BY <1>k, <2>5, TypeNames DEF BeginVerifiedChannelChange
    <3>2. ChangeOK'
      BY <2>5, BeginChangeOK
    <3>3. UNCHANGED <<sessionEpoch, verifiedChannelRef, credentials, sessions, recovery>>
      BY <2>5 DEF BeginVerifiedChannelChange
    <3> QED
      BY <1>r, <1>s, <1>c, <1>e, <1>q, <3>1, <3>2, <3>3
  <2>6. CASE CompleteVerifiedChannelChange(key, actor)
    <3>1. Spent
      BY <1>k, <2>6, TypeNames DEF CompleteVerifiedChannelChange
    <3>2. SessionsOK'
      BY <2>6, RevokeOK DEF CompleteVerifiedChannelChange, RevokeAllSessions
    <3>3. verifiedChannelRef' \in ChannelRefs
      BY <2>6, IdentityParts DEF CompleteVerifiedChannelChange, ChangeOK, Changes
    <3>4. /\ verifiedChannelChange' = NotPending /\ sessionEpoch' = sessionEpoch + 1
          /\ UNCHANGED <<credentials, recovery>>
      BY <2>6 DEF CompleteVerifiedChannelChange
    <3> QED
      BY <1>r, <1>v, <1>c, <1>e, <1>q, <3>1, <3>2, <3>3, <3>4
  <2>7. CASE CancelVerifiedChannelChange(key, actor)
    <3>1. Spent
      BY <1>k, <2>7, TypeNames DEF CancelVerifiedChannelChange
    <3>2. verifiedChannelChange' = NotPending /\ UNCHANGED <<sessionEpoch,
            verifiedChannelRef, credentials, sessions, recovery>>
      BY <2>7 DEF CancelVerifiedChannelChange
    <3> QED
      BY <1>r, <1>v, <1>s, <1>c, <1>e, <1>q, <3>1, <3>2
  <2> QED
    BY <1>2, <2>1, <2>2, <2>3, <2>4, <2>5, <2>6, <2>7 DEF Commands
<1>3. ASSUME NEW a \in AttemptIds, NEW at, Recovers(a, at) PROVE IdentityOK'
  <2>1. ASSUME NEW key \in CommandKeys, BeginRecovery(key, a, at) PROVE IdentityOK'
    <3>1. Spent
      BY <1>k, <2>1, TypeNames DEF BeginRecovery
    <3>2. RecoveryOK'
      BY <2>1, BeginRecoveryOK
    <3>3. UNCHANGED <<sessionEpoch, verifiedChannelRef, credentials, sessions,
                      verifiedChannelChange>>
      BY <2>1 DEF BeginRecovery
    <3> QED
      BY <1>v, <1>s, <1>c, <1>e, <1>q, <3>1, <3>2, <3>3
  <2>2. ASSUME NEW key \in CommandKeys, NEW c \in CredentialIds,
               CompleteRecovery(key, a, c, at)
        PROVE  IdentityOK'
    <3>1. Spent
      BY <1>k, <2>2, TypeNames DEF CompleteRecovery
    <3>2. CredentialsOK'
      <4>1. credentials' = With([d \in DOMAIN credentials |-> "revoked"], c, "active")
        BY <2>2 DEF CompleteRecovery
      <4> QED
        BY <4>1, StatusFacts, IdentityParts DEF CredentialsOK, With
    <3>3. SessionsOK'
      BY <2>2, RevokeOK DEF CompleteRecovery, RevokeAllSessions
    <3>4. /\ recovery' = NotPending /\ sessionEpoch' = sessionEpoch + 1
          /\ UNCHANGED <<verifiedChannelRef, verifiedChannelChange>>
      BY <2>2 DEF CompleteRecovery
    <3> QED
      BY <1>r, <1>v, <1>e, <1>q, <3>1, <3>2, <3>3, <3>4
  <2> QED
    BY <1>3, <2>1, <2>2 DEF Recovers
<1>4. ASSUME UNCHANGED identity PROVE IdentityOK'
  <2>1. UNCHANGED <<securityRevision, sessionEpoch, verifiedChannelRef, credentials,
              sessions, recovery, verifiedChannelChange, processed>>
    BY <1>4 DEF identity
  <2> QED
    BY <1>p, <1>r, <1>v, <1>s, <1>c, <1>e, <1>q, <2>1
<1>5. ASSUME NEW a, NEW at, Denies(a, at) \/ Issues(a, at) PROVE IdentityOK'
  BY <1>4, <1>5 DEF Denies, Issues, BeginRecoveryDenied, CompleteRecoveryDenied, IssueProof
<1> QED
  BY <1>1, <1>2, <1>3, <1>4, <1>5, StepCases DEF SignsIn, Tick, vars

-----------------------------------------------------------------------------
(* Sessions and credentials.                                               *)

(* Ending sessions leaves no session live that was not.                    *)
LEMMA RevokeLives ==
  ASSUME IdentityOK, NEW ended, sessions' = Revoke(ended), UNCHANGED sessionEpoch
  PROVE  /\ LiveSessions' = LiveSessions \ ended
         /\ \A s \in LiveSessions' : /\ sessions'[s].credentialId = sessions[s].credentialId
                                     /\ sessions'[s].authenticatedAt = sessions[s].authenticatedAt
<1>1. /\ DOMAIN sessions' = DOMAIN sessions
      /\ \A s \in DOMAIN sessions :
           /\ sessions'[s].credentialId = sessions[s].credentialId
           /\ sessions'[s].authenticatedAt = sessions[s].authenticatedAt
           /\ sessions'[s].sessionEpoch = sessions[s].sessionEpoch
           /\ s \in ended => sessions'[s].revoked = TRUE
           /\ s \notin ended => sessions'[s].revoked = sessions[s].revoked
  BY RevokeIs, IdentityParts
<1> QED
  BY <1>1 DEF LiveSessions

(* A new epoch, like the end of every session, leaves none live.           *)
LEMMA RevokeAllLives ==
  ASSUME IdentityOK, sessions' = RevokeAllSessions
  PROVE  LiveSessions' = {} /\ DOMAIN sessions' = DOMAIN sessions
<1>1. /\ DOMAIN sessions' = DOMAIN sessions
      /\ \A s \in DOMAIN sessions : sessions'[s].revoked = TRUE
  BY RevokeIs, IdentityParts DEF RevokeAllSessions
<1> QED
  BY <1>1 DEF LiveSessions

(* Signing in makes one session live, and may end others.                  *)
LEMMA AuthenticateLives ==
  ASSUME IdentityOK, NEW c, NEW s, NEW replaced, Authenticate(c, s, replaced)
  PROVE  /\ s \notin DOMAIN sessions /\ DOMAIN sessions' = DOMAIN sessions \cup {s}
         /\ LiveSessions' = (LiveSessions \ replaced) \cup {s}
         /\ sessions'[s].credentialId = c /\ sessions'[s].authenticatedAt = now
         /\ \A r \in LiveSessions : /\ sessions'[r].credentialId = sessions[r].credentialId
                                    /\ sessions'[r].authenticatedAt = sessions[r].authenticatedAt
<1> PICK fresh : fresh = [credentialId |-> c, authenticatedAt |-> now,
                          expiresAt |-> now + SessionLifetimeMs,
                          sessionEpoch |-> sessionEpoch, revoked |-> FALSE]
  OBVIOUS
<1>1. s \notin DOMAIN sessions /\ sessions' = With(Revoke(replaced), s, fresh)
      /\ UNCHANGED sessionEpoch
  BY DEF Authenticate, NewSessionId
<1>2. /\ DOMAIN sessions' = DOMAIN sessions \cup {s}
      /\ sessions'[s] = fresh
      /\ \A r \in DOMAIN sessions : sessions'[r] = Revoke(replaced)[r]
  BY <1>1, RevokeIs, IdentityParts DEF With
<1>3. /\ sessions'[s].credentialId = c /\ sessions'[s].authenticatedAt = now
      /\ sessions'[s].sessionEpoch = sessionEpoch /\ sessions'[s].revoked = FALSE
  BY <1>2
<1>4. \A r \in DOMAIN sessions :
        /\ sessions'[r].credentialId = sessions[r].credentialId
        /\ sessions'[r].authenticatedAt = sessions[r].authenticatedAt
        /\ sessions'[r].sessionEpoch = sessions[r].sessionEpoch
        /\ r \in replaced => sessions'[r].revoked = TRUE
        /\ r \notin replaced => sessions'[r].revoked = sessions[r].revoked
  <2>1. IdentityTypes
    BY IdentityParts
  <2>2. ASSUME NEW r \in DOMAIN sessions
        PROVE  /\ Revoke(replaced)[r].credentialId = sessions[r].credentialId
               /\ Revoke(replaced)[r].authenticatedAt = sessions[r].authenticatedAt
               /\ Revoke(replaced)[r].sessionEpoch = sessions[r].sessionEpoch
               /\ r \in replaced => Revoke(replaced)[r].revoked = TRUE
               /\ r \notin replaced => Revoke(replaced)[r].revoked = sessions[r].revoked
    BY <2>1, RevokeIs
  <2> QED
    BY <1>2, <2>2
<1>5. LiveSessions' = (LiveSessions \ replaced) \cup {s}
  <2>1. ASSUME NEW r PROVE r \in LiveSessions' <=> r \in (LiveSessions \ replaced) \cup {s}
    BY <1>1, <1>2, <1>3, <1>4 DEF LiveSessions
  <2> QED
    BY <2>1
<1> QED
  BY <1>1, <1>2, <1>3, <1>4, <1>5 DEF LiveSessions

(* Whoever may be revoked is not the last.                                 *)
LEMMA NotTheLast ==
  ASSUME NEW c, Revocable(c) PROVE ActiveCredentials \ {c} # {}
<1> SUFFICES ASSUME ActiveCredentials \ {c} = {} PROVE FALSE
  OBVIOUS
<1>1. ActiveCredentials = {c}
  BY DEF Revocable
<1>2. Cardinality({c}) = 1
  BY FS_Singleton
<1> QED
  BY <1>1, <1>2 DEF Revocable

LEMMA RevokeCredentialActive ==
  ASSUME NEW c, Revocable(c), credentials' = [credentials EXCEPT ![c] = "revoked"]
  PROVE  /\ ActiveCredentials' = ActiveCredentials \ {c}
         /\ DOMAIN credentials' = DOMAIN credentials
BY DEF ActiveCredentials, Revocable

LEMMA AddCredentialActive ==
  ASSUME NEW c, c \notin DOMAIN credentials, credentials' = With(credentials, c, "active")
  PROVE  /\ ActiveCredentials' = ActiveCredentials \cup {c}
         /\ DOMAIN credentials' = DOMAIN credentials \cup {c}
BY DEF ActiveCredentials, With

LEMMA RecoverActive ==
  ASSUME NEW c, c \notin DOMAIN credentials,
         credentials' = With([d \in DOMAIN credentials |-> "revoked"], c, "active")
  PROVE  /\ ActiveCredentials' = {c}
         /\ DOMAIN credentials' = DOMAIN credentials \cup {c}
BY DEF ActiveCredentials, With

LEMMA NextBacked ==
  ASSUME IdentityOK, SessionsAreBacked, [Next]_vars
  PROVE  SessionsAreBacked'
<1>1. ASSUME UNCHANGED <<credentials, sessions, sessionEpoch>> PROVE SessionsAreBacked'
  BY <1>1 DEF SessionsAreBacked, ActiveCredentials, LiveSessions
<1>2. CASE SignsIn
  <2> PICK c \in CredentialIds, s \in SessionIds, replaced \in SUBSET DOMAIN sessions :
        Authenticate(c, s, replaced)
    BY <1>2 DEF SignsIn
  <2>1. c \in ActiveCredentials /\ ActiveCredentials' = ActiveCredentials
    BY DEF Authenticate, ActiveCredentials
  <2>2. /\ LiveSessions' = (LiveSessions \ replaced) \cup {s}
        /\ sessions'[s].credentialId = c
        /\ \A r \in LiveSessions : sessions'[r].credentialId = sessions[r].credentialId
    BY AuthenticateLives
  <2> QED
    BY <2>1, <2>2 DEF SessionsAreBacked
<1>3. ASSUME NEW key \in CommandKeys, NEW actor \in SessionIds, Commands(key, actor)
      PROVE  SessionsAreBacked'
  <2>1. ASSUME NEW c \in CredentialIds, AddCredential(key, actor, c)
        PROVE  SessionsAreBacked'
    <3>1. UNCHANGED <<sessions, sessionEpoch>>
          /\ ActiveCredentials' = ActiveCredentials \cup {c}
      BY <2>1, AddCredentialActive DEF AddCredential
    <3>2. LiveSessions' = LiveSessions
      BY <3>1 DEF LiveSessions
    <3> QED
      BY <3>1, <3>2 DEF SessionsAreBacked
  <2>2. ASSUME NEW c \in CredentialIds, RevokeCredential(key, actor, c)
        PROVE  SessionsAreBacked'
    <3> PICK ended : ended = {s \in DOMAIN sessions : sessions[s].credentialId = c}
      OBVIOUS
    <3>1. /\ Revocable(c) /\ credentials' = [credentials EXCEPT ![c] = "revoked"]
          /\ sessions' = Revoke(ended) /\ UNCHANGED sessionEpoch
      BY <2>2 DEF RevokeCredential, RevokeCredentialSessions
    <3>2. ActiveCredentials' = ActiveCredentials \ {c} /\ ActiveCredentials \ {c} # {}
      BY <3>1, RevokeCredentialActive, NotTheLast
    <3>3. \A s \in LiveSessions' : /\ s \in LiveSessions /\ sessions[s].credentialId # c
                                   /\ sessions'[s].credentialId = sessions[s].credentialId
      BY <3>1, RevokeLives DEF LiveSessions
    <3> QED
      BY <3>2, <3>3 DEF SessionsAreBacked
  <2>3. ASSUME NEW target \in SessionIds, RevokeSession(key, actor, target)
        PROVE  SessionsAreBacked'
    <3>1. sessions' = Revoke({target}) /\ UNCHANGED sessionEpoch
          /\ ActiveCredentials' = ActiveCredentials
      BY <2>3 DEF RevokeSession, ActiveCredentials
    <3>2. \A s \in LiveSessions' : /\ s \in LiveSessions
                                   /\ sessions'[s].credentialId = sessions[s].credentialId
      BY <3>1, RevokeLives
    <3> QED
      BY <3>1, <3>2 DEF SessionsAreBacked
  <2>4. CASE CompleteVerifiedChannelChange(key, actor)
    <3>1. LiveSessions' = {} /\ ActiveCredentials' = ActiveCredentials
      BY <2>4, RevokeAllLives DEF CompleteVerifiedChannelChange, ActiveCredentials
    <3> QED
      BY <3>1 DEF SessionsAreBacked
  <2>5. CASE \/ \E at \in Proofs!DatabaseClock : CancelRecovery(key, actor, at)
             \/ \E next \in ChannelRefs : BeginVerifiedChannelChange(key, actor, next)
             \/ CancelVerifiedChannelChange(key, actor)
    BY <1>1, <2>5 DEF CancelRecovery, BeginVerifiedChannelChange, CancelVerifiedChannelChange
  <2> QED
    BY <1>3, <2>1, <2>2, <2>3, <2>4, <2>5 DEF Commands
<1>4. ASSUME NEW a \in AttemptIds, NEW at \in Proofs!DatabaseClock, Recovers(a, at)
      PROVE  SessionsAreBacked'
  <2>1. ASSUME NEW key \in CommandKeys, NEW c \in CredentialIds,
               CompleteRecovery(key, a, c, at)
        PROVE  SessionsAreBacked'
    <3>1. LiveSessions' = {} /\ ActiveCredentials' = {c}
      BY <2>1, RevokeAllLives, RecoverActive DEF CompleteRecovery
    <3> QED
      BY <3>1 DEF SessionsAreBacked
  <2> QED
    BY <1>1, <1>4, <2>1 DEF Recovers, BeginRecovery
<1>5. ASSUME NEW a, NEW at, Denies(a, at) \/ Issues(a, at) PROVE SessionsAreBacked'
  BY <1>1, <1>5 DEF Denies, Issues, BeginRecoveryDenied, CompleteRecoveryDenied,
                    IssueProof, identity
<1> QED
  BY <1>1, <1>2, <1>3, <1>4, <1>5, StepCases DEF Tick, identity, vars

-----------------------------------------------------------------------------
(* The recovery and its attempt.                                           *)

(* A write that neither makes nor ends a pending recovery's attempt.       *)
LEMMA KeepsMatch ==
  ASSUME RecoveryMatchesProofs, UNCHANGED recovery, NEW a, NEW x,
         Writes(a, x), IsAttempt(x),
         a \in DOMAIN attempts => Keeps(x, attempts[a]),
         a \notin DOMAIN attempts => ~IsPending(x)
  PROVE  RecoveryMatchesProofs'
<1>1. ASSUME recovery # NotPending
      PROVE  /\ recovery.attemptId \in DOMAIN attempts'
             /\ IsPending(attempts'[recovery.attemptId])
             /\ attempts'[recovery.attemptId].expiresAt >= recovery.readyAt
             /\ attempts'[recovery.attemptId].issued = Proofs!Factors
  <2>1. /\ recovery.attemptId \in DOMAIN attempts
        /\ IsPending(attempts[recovery.attemptId])
        /\ attempts[recovery.attemptId].expiresAt >= recovery.readyAt
        /\ attempts[recovery.attemptId].issued = Proofs!Factors
    BY <1>1 DEF RecoveryMatchesProofs, IsPending
  <2>2. CASE recovery.attemptId = a
    BY <2>1, <2>2 DEF Writes, Keeps, IsAttempt
  <2>3. CASE recovery.attemptId # a
    BY <2>1, <2>3 DEF Writes
  <2> QED
    BY <2>2, <2>3
<1>2. ASSUME NEW b \in DOMAIN attempts', IsPending(attempts'[b])
      PROVE  recovery # NotPending /\ recovery.attemptId = b
  <2>1. b \in DOMAIN attempts /\ IsPending(attempts[b])
    BY <1>2 DEF Writes, Keeps
  <2> QED
    BY <2>1 DEF RecoveryMatchesProofs, IsPending
<1> QED
  BY <1>1, <1>2 DEF RecoveryMatchesProofs, IsPending, Proofs!Terminal

(* Ending the pending recovery's attempt, with the recovery.               *)
LEMMA EndsMatch ==
  ASSUME RecoveryMatchesProofs, recovery # NotPending, recovery' = NotPending,
         NEW x, Writes(recovery.attemptId, x), Proofs!Terminal(x)
  PROVE  RecoveryMatchesProofs'
<1>1. ASSUME NEW b \in DOMAIN attempts' PROVE ~IsPending(attempts'[b])
  <2>1. CASE b = recovery.attemptId
    BY <2>1 DEF Writes, IsPending
  <2>2. CASE b # recovery.attemptId
    BY <1>1, <2>2 DEF Writes, IsPending, RecoveryMatchesProofs
  <2> QED
    BY <2>1, <2>2
<1> QED
  BY <1>1 DEF RecoveryMatchesProofs, IsPending, Proofs!Terminal

LEMMA NextMatches ==
  ASSUME IInv, [Next]_vars
  PROVE  RecoveryMatchesProofs'
<1>0. StoreInv /\ now \in Nat /\ RecoveryMatchesProofs
      /\ Proofs!DatabaseClock \subseteq Nat
  BY ClockIsNat DEF IInv, StoreInv
<1>1. ASSUME UNCHANGED <<recovery, attempts>> PROVE RecoveryMatchesProofs'
  BY <1>0, <1>1 DEF RecoveryMatchesProofs, Proofs!Terminal
<1>2. CASE SignsIn
  BY <1>1, <1>2 DEF SignsIn, Authenticate
<1>3. ASSUME NEW key \in CommandKeys, NEW actor \in SessionIds, Commands(key, actor)
      PROVE  RecoveryMatchesProofs'
  <2>1. ASSUME NEW at \in Proofs!DatabaseClock, CancelRecovery(key, actor, at)
        PROVE  RecoveryMatchesProofs'
    <3>1. /\ recovery # NotPending /\ recovery' = NotPending
          /\ Proofs!Cancel(recovery.attemptId, at)
      BY <2>1 DEF CancelRecovery
    <3>2. recovery.attemptId \in DOMAIN attempts
          /\ ~Proofs!Terminal(attempts[recovery.attemptId])
      BY <1>0, <3>1 DEF RecoveryMatchesProofs
    <3>3. \E x : Writes(recovery.attemptId, x) /\ Proofs!Terminal(x)
      BY <1>0, <3>1, <3>2, CancelWrites
    <3> QED
      BY <1>0, <3>1, <3>3, EndsMatch
  <2>2. CASE ~ \E at \in Proofs!DatabaseClock : CancelRecovery(key, actor, at)
    BY <1>1, <1>3, <2>2 DEF Commands, Execute, AddCredential, RevokeCredential,
       RevokeSession, BeginVerifiedChannelChange, CompleteVerifiedChannelChange,
       CancelVerifiedChannelChange
  <2> QED
    BY <2>1, <2>2
<1>4. ASSUME NEW a \in AttemptIds, NEW at \in Nat, Recovers(a, at)
      PROVE  RecoveryMatchesProofs'
  <2>1. ASSUME NEW key \in CommandKeys, BeginRecovery(key, a, at)
        PROVE  RecoveryMatchesProofs'
    <3>1. /\ recovery = NotPending /\ recovery' # NotPending
          /\ recovery'.attemptId = a /\ recovery'.readyAt = RecoveryReadyAt
          /\ Proofs!Accept(a, at, RecoveryReadyAt)
      BY <2>1 DEF BeginRecovery, NotPending
    <3>2. PICK x : /\ Writes(a, x) /\ IsPending(x) /\ x.expiresAt >= RecoveryReadyAt
                   /\ x.issued = Proofs!Factors
      BY <1>0, <3>1, AcceptWrites
    <3>3. /\ a \in DOMAIN attempts' /\ attempts'[a] = x
          /\ \A b \in DOMAIN attempts' \ {a} :
               b \in DOMAIN attempts /\ attempts'[b] = attempts[b]
      BY <3>2 DEF Writes
    <3>4. \A b \in DOMAIN attempts : ~IsPending(attempts[b])
      BY <1>0, <3>1 DEF RecoveryMatchesProofs, IsPending
    <3> QED
      BY <3>1, <3>2, <3>3, <3>4 DEF RecoveryMatchesProofs, IsPending, Proofs!Terminal
  <2>2. ASSUME NEW key \in CommandKeys, NEW c \in CredentialIds,
               CompleteRecovery(key, a, c, at)
        PROVE  RecoveryMatchesProofs'
    <3>1. /\ recovery # NotPending /\ recovery.attemptId = a
          /\ recovery' = NotPending /\ Proofs!Consume(a, at)
      BY <2>2 DEF CompleteRecovery, ReadyToComplete
    <3>2. \E x : Writes(a, x) /\ Proofs!Terminal(x)
      BY <1>0, <3>1, ConsumeWrites
    <3> QED
      BY <1>0, <3>1, <3>2, EndsMatch
  <2> QED
    BY <1>4, <2>1, <2>2 DEF Recovers
<1>5. ASSUME NEW a \in AttemptIds, NEW at \in Nat, Denies(a, at)
      PROVE  RecoveryMatchesProofs'
  <2>1. PICK wrong \in SUBSET Proofs!Factors :
          Proofs!Open(a, at) /\ Proofs!RecordFailure(a, wrong, at) /\ UNCHANGED recovery
    BY <1>5 DEF Denies, BeginRecoveryDenied, CompleteRecoveryDenied, identity,
       Proofs!RefuseAccept, Proofs!RefuseConsume, Proofs!Acceptable, Proofs!Consumable
  <2>2. /\ a \in DOMAIN attempts
        /\ \E x : Writes(a, x) /\ IsAttempt(x) /\ Keeps(x, attempts[a])
    BY <1>0, <2>1, FailureWrites
  <2> QED
    BY <1>0, <2>1, <2>2, KeepsMatch
<1>6. ASSUME NEW a \in AttemptIds, NEW at \in Nat, Issues(a, at)
      PROVE  RecoveryMatchesProofs'
  <2>1. PICK factor \in Proofs!Factors, expiresAt \in Expiries :
          Proofs!Issue(a, factor, expiresAt, at) /\ UNCHANGED recovery
    BY <1>6 DEF Issues, IssueProof, identity
  <2>2. expiresAt \in Nat
    BY StoreAssumption DEF Proofs!ProofsAssumption
  <2>3. \E x : /\ Writes(a, x) /\ IsAttempt(x)
               /\ a \in DOMAIN attempts => Keeps(x, attempts[a])
               /\ a \notin DOMAIN attempts => ~IsPending(x)
    BY <1>0, <2>1, <2>2, IssueWrites
  <2> QED
    BY <1>0, <2>1, <2>3, KeepsMatch
<1> QED
  BY <1>0, <1>1, <1>2, <1>3, <1>4, <1>5, <1>6, StepCases
     DEF Tick, Proofs!Tick, identity, vars

-----------------------------------------------------------------------------
LEMMA InitIInv == Init => IInv
<1> SUFFICES ASSUME Init PROVE IInv
  OBVIOUS
<1> PICK c \in CredentialIds : credentials = With(<<>>, c, "active")
  BY DEF Init
<1>1. DOMAIN credentials = {c} /\ credentials[c] = "active"
  BY DEF With
<1>2. StoreInv /\ attempts = <<>>
  BY StoreInit DEF Init, Proofs!ProofsInit
<1>3. DOMAIN sessions = {} /\ DOMAIN processed = {} /\ DOMAIN attempts = {}
  BY <1>2 DEF Init
<1>4. IdentityTypes /\ DeadlinesAreThePolicys
  BY <1>1, <1>3, StatusFacts DEF Init, IdentityTypes, DeadlinesAreThePolicys
<1>5. SessionsAreBacked
  BY <1>1, <1>3 DEF SessionsAreBacked, ActiveCredentials, LiveSessions
<1>6. RecoveryMatchesProofs
  BY <1>3 DEF Init, RecoveryMatchesProofs
<1> QED
  BY <1>2, <1>4, <1>5, <1>6 DEF IInv

LEMMA NextIInv == IInv /\ [Next]_vars => IInv'
<1> SUFFICES ASSUME IInv, [Next]_vars PROVE IInv'
  OBVIOUS
<1>1. IdentityOK /\ now \in Nat /\ SessionsAreBacked
  BY DEF IInv, IdentityOK, StoreInv
<1>2. StoreInv' /\ RecoveryMatchesProofs'
  BY IdentityKeepsStore, NextMatches
<1>3. IdentityOK' /\ SessionsAreBacked'
  BY <1>1, NextIdentityOK, NextBacked
<1> QED
  BY <1>2, <1>3 DEF IInv, IdentityOK

(* The Owner always has a credential to sign in with, and whoever loses a  *)
(* credential loses every session made with it.                            *)
THEOREM OwnerStaysBacked == Spec => []SessionsAreBacked
<1>1. IInv => SessionsAreBacked
  BY DEF IInv
<1> QED
  BY InitIInv, NextIInv, <1>1, PTL DEF Spec

LEMMA InitCount == Init => IInv /\ CountInv
BY InitIInv, CountInit DEF Init

LEMMA NextCount == IInv /\ CountInv /\ [Next]_vars => (IInv /\ CountInv)'
BY NextIInv, IdentityMoves, MovesKeepCount DEF IInv

(* A pending recovery has its accepted, open attempt, an accepted and open *)
(* attempt is the pending recovery's, and every attempt is coherent: what  *)
(* restore inspection demands of a backup holds at every moment; and every *)
(* record is what its table's columns can hold.                            *)
THEOREM RecordsAgree ==
  Spec => [](TypeOK /\ RecoveryMatchesProofs /\ Proofs!AttemptsAreCoherent)
<1> DEFINE Inv == IInv /\ CountInv
<1>1. Inv => TypeOK /\ RecoveryMatchesProofs /\ Proofs!AttemptsAreCoherent
  BY StoreTypes DEF IInv, StoreInv, IdentityTypes, TypeOK
<1> HIDE DEF Inv
<1>2. Init => Inv
  BY InitCount DEF Inv
<1>3. Inv /\ [Next]_vars => Inv'
  BY NextCount DEF Inv
<1> QED
  BY <1>1, <1>2, <1>3, PTL DEF Spec

(* Denied recoveries are slowed down by the same locks.                    *)
THEOREM RecoveriesStayLimited == Spec => []Proofs!GuessesAreLimited
<1> DEFINE Inv == IInv /\ CountInv
<1>1. Inv => Proofs!GuessesAreLimited
  BY DEF CountInv
<1> HIDE DEF Inv
<1>2. Init => Inv
  BY InitCount DEF Inv
<1>3. Inv /\ [Next]_vars => Inv'
  BY NextCount DEF Inv
<1> QED
  BY <1>1, <1>2, <1>3, PTL DEF Spec

(* Under the identity's commands a cancelled or consumed attempt is final. *)
THEOREM AttemptsEndForGood == Spec => AttemptsAreFinal
<1>1. IInv /\ [Next]_vars => [Proofs!TerminalStep]_attempts
  BY IdentityKeepsStore
<1> QED
  BY InitIInv, NextIInv, <1>1, PTL DEF Spec, AttemptsAreFinal

-----------------------------------------------------------------------------
(* The identity implements OwnerAuthority.                                 *)

(* OwnerAuthority's view of a session, and of those that are live.         *)
SignInOf(s) == [session |-> s, credential |-> sessions[s].credentialId,
                since |-> sessions[s].authenticatedAt]
Live == {SignInOf(s) : s \in LiveSessions}
Retired == DOMAIN credentials \ ActiveCredentials
RecoverySince == IF recovery = NotPending THEN -1 ELSE recovery.startedAt
ChangeSince == IF verifiedChannelChange = NotPending THEN -1
               ELSE verifiedChannelChange.startedAt
NextChannel == IF verifiedChannelChange = NotPending THEN verifiedChannelRef
               ELSE verifiedChannelChange.nextChannelRef

(* A session that verifies and is recent speaks for the Owner.             *)
LEMMA RecentSessionSpeaks ==
  ASSUME IdentityOK, now \in Nat, NEW s, RecentSession(s)
  PROVE  Authority!RecentOwner
<1>1. s \in LiveSessions
  BY DEF RecentSession, VerifySession, LiveSessions
<1>2. /\ sessions[s].authenticatedAt <= now
      /\ now <= sessions[s].authenticatedAt + SessionLifetimeMs
      /\ now - sessions[s].authenticatedAt <= RecentAuthenticationWindowMs
  BY IdentityParts DEF RecentSession, VerifySession, SessionsOK
<1> PICK l : l = SignInOf(s)
  OBVIOUS
<1>3. l \in Live /\ l.since = sessions[s].authenticatedAt
  BY <1>1 DEF Live, SignInOf
<1> QED
  BY <1>2, <1>3 DEF Authority!RecentOwner, Live, SignInOf

LEMMA SameLive ==
  ASSUME LiveSessions' \subseteq LiveSessions,
         \A s \in LiveSessions' : /\ sessions'[s].credentialId = sessions[s].credentialId
                                  /\ sessions'[s].authenticatedAt = sessions[s].authenticatedAt
  PROVE  /\ Live' = {SignInOf(s) : s \in LiveSessions'}
         /\ Live' \subseteq Live
         /\ LiveSessions' = LiveSessions => Live' = Live
BY DEF Live, SignInOf

LEMMA SameViews ==
  /\ UNCHANGED credentials => UNCHANGED <<ActiveCredentials, Retired>>
  /\ UNCHANGED <<sessions, sessionEpoch>> => UNCHANGED <<Live, DOMAIN sessions>>
  /\ UNCHANGED recovery => UNCHANGED RecoverySince
  /\ UNCHANGED <<verifiedChannelChange, verifiedChannelRef>>
       => UNCHANGED <<ChangeSince, NextChannel>>
BY DEF ActiveCredentials, Retired, Live, LiveSessions, SignInOf, RecoverySince,
       ChangeSince, NextChannel

LEMMA RefineSignIn ==
  ASSUME IdentityOK, now \in Nat, NEW c, NEW s, NEW replaced,
         Authenticate(c, s, replaced)
  PROVE  Authority!SignIn
<1>1. /\ s \notin DOMAIN sessions /\ DOMAIN sessions' = DOMAIN sessions \cup {s}
      /\ LiveSessions' = (LiveSessions \ replaced) \cup {s}
      /\ sessions'[s].credentialId = c /\ sessions'[s].authenticatedAt = now
      /\ \A r \in LiveSessions : /\ sessions'[r].credentialId = sessions[r].credentialId
                                 /\ sessions'[r].authenticatedAt = sessions[r].authenticatedAt
  BY AuthenticateLives
<1> PICK l : l = [session |-> s, credential |-> c, since |-> now]
  OBVIOUS
<1>2. l.session \notin DOMAIN sessions /\ l.credential \in ActiveCredentials /\ l.since = now
  BY <1>1 DEF Authenticate
<1>3. l \in Live'
  BY <1>1 DEF Live, SignInOf
<1>4. Live' \ {l} \subseteq Live
  BY <1>1 DEF Live, SignInOf
<1>5. DOMAIN sessions' = DOMAIN sessions \cup {l.session}
  BY <1>1
<1>6. UNCHANGED <<ActiveCredentials, Retired, verifiedChannelRef, ChangeSince, NextChannel,
                  RecoverySince, now>>
  BY SameViews DEF Authenticate
<1> QED
  BY <1>2, <1>3, <1>4, <1>5, <1>6
     DEF Authority!SignIn, Authority!Credentials, Authority!Channels, Live, SignInOf,
         Retired, RecoverySince, ChangeSince, NextChannel

LEMMA RefineCommands ==
  ASSUME IdentityOK, now \in Nat, NEW key \in CommandKeys, NEW actor \in SessionIds,
         Commands(key, actor)
  PROVE  Authority!Next
<1>1. UNCHANGED now
  BY DEF Commands, Execute, AddCredential, RevokeCredential, RevokeSession, CancelRecovery,
     BeginVerifiedChannelChange, CompleteVerifiedChannelChange, CancelVerifiedChannelChange
<1>2. Authority!RecentOwner
  <2>1. RecentSession(actor)
    BY DEF Commands, AddCredential, RevokeCredential, RevokeSession, CancelRecovery,
       BeginVerifiedChannelChange, CompleteVerifiedChannelChange,
       CancelVerifiedChannelChange
  <2> QED
    BY <2>1, RecentSessionSpeaks
<1>3. ASSUME NEW c \in CredentialIds, AddCredential(key, actor, c) PROVE Authority!Enrol
  <2>1. /\ c \notin DOMAIN credentials
        /\ ActiveCredentials' = ActiveCredentials \cup {c}
        /\ DOMAIN credentials' = DOMAIN credentials \cup {c}
    BY <1>3, AddCredentialActive DEF AddCredential
  <2>2. ActiveCredentials \cup Retired = DOMAIN credentials /\ Retired' = Retired
    BY <2>1 DEF Retired, ActiveCredentials
  <2>3. UNCHANGED <<Live, DOMAIN sessions, verifiedChannelRef, ChangeSince, NextChannel,
                    RecoverySince>>
    BY <1>3, SameViews DEF AddCredential
  <2> QED
    BY <1>1, <1>2, <2>1, <2>2, <2>3
       DEF Authority!Enrol, Authority!Credentials, Authority!Channels, Live, SignInOf,
           Retired, RecoverySince, ChangeSince, NextChannel
<1>4. ASSUME NEW c \in CredentialIds, RevokeCredential(key, actor, c)
      PROVE  Authority!Retire
  <2> PICK ended : ended = {s \in DOMAIN sessions : sessions[s].credentialId = c}
    OBVIOUS
  <2>1. /\ Revocable(c) /\ credentials' = [credentials EXCEPT ![c] = "revoked"]
        /\ sessions' = Revoke(ended) /\ UNCHANGED sessionEpoch
    BY <1>4 DEF RevokeCredential, RevokeCredentialSessions
  <2>2. /\ c \in ActiveCredentials
        /\ ActiveCredentials' = ActiveCredentials \ {c} /\ ActiveCredentials' # {}
        /\ DOMAIN credentials' = DOMAIN credentials
    BY <2>1, RevokeCredentialActive, NotTheLast DEF Revocable
  <2>3. Retired' = Retired \cup {c}
    BY <2>2 DEF Retired, ActiveCredentials
  <2>4. /\ LiveSessions' = LiveSessions \ ended
        /\ \A s \in LiveSessions' :
             /\ sessions'[s].credentialId = sessions[s].credentialId
             /\ sessions'[s].authenticatedAt = sessions[s].authenticatedAt
    BY <2>1, RevokeLives
  <2>5. Live' = {l \in Live : l.credential # c}
    <3>1. ASSUME NEW l \in Live' PROVE l \in Live /\ l.credential # c
      <4>1. PICK s \in LiveSessions' :
              l = [session |-> s, credential |-> sessions'[s].credentialId,
                   since |-> sessions'[s].authenticatedAt]
        BY <3>1 DEF Live, SignInOf
      <4>2. s \in LiveSessions /\ l = SignInOf(s) /\ sessions[s].credentialId # c
        BY <2>4, <4>1 DEF SignInOf, LiveSessions
      <4> QED
        BY <4>2 DEF Live, SignInOf
    <3>2. ASSUME NEW l \in Live, l.credential # c PROVE l \in Live'
      <4>1. PICK s \in LiveSessions : l = SignInOf(s)
        BY <3>2 DEF Live
      <4>2. s \in LiveSessions'
        BY <2>4, <3>2, <4>1 DEF SignInOf
      <4>3. l = [session |-> s, credential |-> sessions'[s].credentialId,
                 since |-> sessions'[s].authenticatedAt]
        BY <2>4, <4>1, <4>2 DEF SignInOf
      <4> QED
        BY <4>2, <4>3 DEF Live, SignInOf
    <3> QED
      BY <3>1, <3>2
  <2>6. DOMAIN sessions' = DOMAIN sessions
    BY <2>1, RevokeIs, IdentityParts
  <2>7. UNCHANGED <<verifiedChannelRef, ChangeSince, NextChannel, RecoverySince>>
    BY <1>4, SameViews DEF RevokeCredential
  <2> QED
    BY <1>1, <1>2, <2>2, <2>3, <2>5, <2>6, <2>7
       DEF Authority!Retire, Authority!Channels, Live, SignInOf,
           Retired, RecoverySince, ChangeSince, NextChannel
<1>5. ASSUME NEW target \in SessionIds, RevokeSession(key, actor, target)
      PROVE  Authority!SignOut
  <2>1. sessions' = Revoke({target}) /\ UNCHANGED sessionEpoch
    BY <1>5 DEF RevokeSession
  <2>2. Live' \subseteq Live /\ DOMAIN sessions' = DOMAIN sessions
    <3>1. LiveSessions' \subseteq LiveSessions
          /\ \A s \in LiveSessions' :
               /\ sessions'[s].credentialId = sessions[s].credentialId
               /\ sessions'[s].authenticatedAt = sessions[s].authenticatedAt
      BY <2>1, RevokeLives
    <3> QED
      BY <2>1, <3>1, SameLive, RevokeIs, IdentityParts
  <2>3. UNCHANGED <<ActiveCredentials, Retired, verifiedChannelRef, ChangeSince,
                    NextChannel, RecoverySince>>
    BY <1>5, SameViews DEF RevokeSession
  <2> QED
    BY <1>1, <1>2, <2>2, <2>3
       DEF Authority!SignOut, Authority!Credentials, Authority!Channels, Live, SignInOf,
           Retired, RecoverySince, ChangeSince, NextChannel
<1>6. ASSUME NEW at, CancelRecovery(key, actor, at) PROVE Authority!CancelRecovery
  <2>1. RecoverySince # -1 /\ RecoverySince' = -1
    <3>1. recovery # NotPending /\ recovery \in Recoveries /\ recovery' = NotPending
      BY <1>6, IdentityParts DEF CancelRecovery, RecoveryOK
    <3> QED
      BY <3>1 DEF RecoverySince, Recoveries
  <2>2. UNCHANGED <<ActiveCredentials, Retired, Live, DOMAIN sessions, verifiedChannelRef,
                    ChangeSince, NextChannel>>
    BY <1>6, SameViews DEF CancelRecovery
  <2> QED
    BY <1>1, <1>2, <2>1, <2>2
       DEF Authority!CancelRecovery, Authority!None, Authority!Credentials,
           Authority!Channels, Live, SignInOf, Retired, RecoverySince, ChangeSince,
           NextChannel
<1>7. ASSUME NEW next \in ChannelRefs, BeginVerifiedChannelChange(key, actor, next)
      PROVE  Authority!BeginChannelChange
  <2>1. /\ ChangeSince = -1 /\ ChangeSince' = now /\ NextChannel' = next
    BY <1>7 DEF BeginVerifiedChannelChange, ChangeSince, NextChannel, NotPending
  <2>2. UNCHANGED <<ActiveCredentials, Retired, Live, DOMAIN sessions, verifiedChannelRef,
                    RecoverySince>>
    BY <1>7, SameViews DEF BeginVerifiedChannelChange
  <2> QED
    BY <1>1, <1>2, <2>1, <2>2
       DEF Authority!BeginChannelChange, Authority!None, Authority!Credentials,
           Live, SignInOf, Retired, RecoverySince, ChangeSince, NextChannel
<1>8. ASSUME CompleteVerifiedChannelChange(key, actor) PROVE Authority!ChangeChannel
  <2>1. /\ verifiedChannelChange # NotPending /\ verifiedChannelChange \in Changes
        /\ verifiedChannelChange.readyAt =
             verifiedChannelChange.startedAt + ChannelChangeCoolingOffMs
        /\ now >= verifiedChannelChange.readyAt
        /\ verifiedChannelRef' = verifiedChannelChange.nextChannelRef
        /\ verifiedChannelChange' = NotPending
    BY <1>8, IdentityParts DEF CompleteVerifiedChannelChange, ChangeOK
  <2>2. /\ ChangeSince # -1 /\ now >= ChangeSince + ChannelChangeCoolingOffMs
        /\ verifiedChannelRef' = NextChannel
        /\ ChangeSince' = -1 /\ NextChannel' = verifiedChannelRef'
    BY <2>1 DEF ChangeSince, NextChannel, Changes
  <2>3. Live' = {} /\ DOMAIN sessions' = DOMAIN sessions
    BY <1>8, RevokeAllLives DEF CompleteVerifiedChannelChange, Live
  <2>4. UNCHANGED <<ActiveCredentials, Retired, RecoverySince>>
    BY <1>8, SameViews DEF CompleteVerifiedChannelChange
  <2> QED
    BY <1>1, <1>2, <2>2, <2>3, <2>4
       DEF Authority!ChangeChannel, Authority!None, Authority!Credentials,
           Live, SignInOf, Retired, RecoverySince, ChangeSince, NextChannel
<1>9. ASSUME CancelVerifiedChannelChange(key, actor) PROVE Authority!CancelChannelChange
  <2>1. /\ ChangeSince # -1 /\ ChangeSince' = -1 /\ NextChannel' = verifiedChannelRef
    <3>1. /\ verifiedChannelChange # NotPending /\ verifiedChannelChange \in Changes
          /\ verifiedChannelChange' = NotPending /\ UNCHANGED verifiedChannelRef
      BY <1>9, IdentityParts DEF CancelVerifiedChannelChange, ChangeOK
    <3> QED
      BY <3>1 DEF ChangeSince, NextChannel, Changes
  <2>2. UNCHANGED <<ActiveCredentials, Retired, Live, DOMAIN sessions, verifiedChannelRef,
                    RecoverySince>>
    BY <1>9, SameViews DEF CancelVerifiedChannelChange
  <2> QED
    BY <1>1, <1>2, <2>1, <2>2
       DEF Authority!CancelChannelChange, Authority!None, Authority!Credentials,
           Live, SignInOf, Retired, RecoverySince, ChangeSince, NextChannel
<1> QED
  BY <1>3, <1>4, <1>5, <1>6, <1>7, <1>8, <1>9 DEF Commands, Authority!Next

LEMMA RefineRecovers ==
  ASSUME IdentityOK, now \in Nat, NEW a \in AttemptIds, NEW at, Recovers(a, at)
  PROVE  Authority!Next
<1>1. ASSUME NEW key \in CommandKeys, BeginRecovery(key, a, at)
      PROVE  Authority!BeginRecovery
  <2>1. RecoverySince = -1 /\ RecoverySince' = now
    BY <1>1 DEF BeginRecovery, RecoverySince, NotPending
  <2>2. UNCHANGED <<ActiveCredentials, Retired, Live, DOMAIN sessions, verifiedChannelRef,
                    ChangeSince, NextChannel, now>>
    BY <1>1, SameViews DEF BeginRecovery, Execute
  <2> QED
    BY <2>1, <2>2
       DEF Authority!BeginRecovery, Authority!None, Authority!Credentials,
           Authority!Channels, Live, SignInOf, Retired, RecoverySince, ChangeSince,
           NextChannel
<1>2. ASSUME NEW key \in CommandKeys, NEW c \in CredentialIds,
             CompleteRecovery(key, a, c, at)
      PROVE  Authority!Recover
  <2>1. /\ recovery # NotPending /\ recovery \in Recoveries
        /\ recovery.readyAt = recovery.startedAt + RecoveryCoolingOffMs
        /\ now >= recovery.readyAt /\ recovery' = NotPending
    BY <1>2, IdentityParts DEF CompleteRecovery, ReadyToComplete, RecoveryOK
  <2>2. /\ RecoverySince # -1 /\ now >= RecoverySince + RecoveryCoolingOffMs
        /\ RecoverySince' = -1
    BY <2>1 DEF RecoverySince, Recoveries
  <2>3. /\ c \notin DOMAIN credentials /\ ActiveCredentials' = {c}
        /\ DOMAIN credentials' = DOMAIN credentials \cup {c}
    BY <1>2, RecoverActive DEF CompleteRecovery
  <2>4. /\ ActiveCredentials \cup Retired = DOMAIN credentials
        /\ Retired' = Retired \cup ActiveCredentials
    BY <2>3 DEF Retired, ActiveCredentials
  <2>5. Live' = {} /\ DOMAIN sessions' = DOMAIN sessions
    BY <1>2, RevokeAllLives DEF CompleteRecovery, Live
  <2>6. UNCHANGED <<verifiedChannelRef, ChangeSince, NextChannel, now>>
    BY <1>2, SameViews DEF CompleteRecovery, Execute
  <2> QED
    BY <2>2, <2>3, <2>4, <2>5, <2>6
       DEF Authority!Recover, Authority!None, Authority!Channels, Live, SignInOf,
           Retired, RecoverySince, ChangeSince, NextChannel
<1> QED
  BY <1>1, <1>2 DEF Recovers, Authority!Next

LEMMA NextRefines ==
  ASSUME IInv, [Next]_vars
  PROVE  [Authority!Next]_(Authority!authority)
<1>0. IdentityOK /\ now \in Nat
  BY DEF IInv, IdentityOK, StoreInv
<1>1. CASE SignsIn
  BY <1>0, <1>1, RefineSignIn DEF SignsIn, Authority!Next
<1>2. ASSUME UNCHANGED <<identity, now>> PROVE UNCHANGED Authority!authority
  BY <1>2, SameViews
     DEF identity, Authority!authority, Live, SignInOf, Retired, RecoverySince,
         ChangeSince, NextChannel
<1>3. ASSUME NEW a, NEW at, Denies(a, at) \/ Issues(a, at)
      PROVE  UNCHANGED Authority!authority
  BY <1>2, <1>3 DEF Denies, Issues, BeginRecoveryDenied, CompleteRecoveryDenied, IssueProof
<1>4. CASE Tick
  <2>1. now' = now + 1 /\ UNCHANGED identity
    BY <1>4 DEF Tick, Proofs!Tick
  <2>2. Authority!Tick
    BY <2>1, SameViews
       DEF identity, Authority!Tick, Authority!Credentials, Authority!Channels, Live,
           SignInOf, Retired, RecoverySince, ChangeSince, NextChannel
  <2> QED
    BY <2>2 DEF Authority!Next
<1>5. CASE UNCHANGED vars
  BY <1>2, <1>5 DEF vars
<1> QED
  BY <1>0, <1>1, <1>3, <1>4, <1>5, RefineCommands, RefineRecovers, StepCases

LEMMA InitRefines == Init => Authority!Init
<1> SUFFICES ASSUME Init PROVE Authority!Init
  OBVIOUS
<1> PICK c \in CredentialIds : credentials = With(<<>>, c, "active")
  BY DEF Init
<1>1. ActiveCredentials = {c} /\ Retired = {}
  BY DEF With, ActiveCredentials, Retired
<1>2. DOMAIN sessions = {} /\ Live = {}
  BY DEF Init, Live, LiveSessions
<1>3. /\ verifiedChannelRef \in ChannelRefs /\ now \in Nat
      /\ RecoverySince = -1 /\ ChangeSince = -1 /\ NextChannel = verifiedChannelRef
  BY DEF Init, Proofs!ProofsInit, RecoverySince, ChangeSince, NextChannel
<1> QED
  BY <1>1, <1>2, <1>3
     DEF Authority!Init, Authority!None, Live, SignInOf, Retired, RecoverySince,
         ChangeSince, NextChannel

(* Authority over the identity changes hands only at the word of a recent, *)
(* live session or at the end of a recovery's whole cooling-off, and a     *)
(* session that was ended is never live again: the identity implements     *)
(* OwnerAuthority.                                                         *)
THEOREM IdentityKeepsAuthority == Spec => KeepsAuthority
BY InitRefines, InitIInv, NextIInv, NextRefines, PTL
   DEF Spec, KeepsAuthority, Authority!Spec
=============================================================================
