-------------------------- MODULE MCOwnerIdentity ---------------------------
(***************************************************************************)
(* An Owner Identity small enough for TLC.  Sessions, credentials, command *)
(* keys and attempts are numbers: they are interchangeable, so fresh ones  *)
(* are taken in order.                                                     *)
(*                                                                         *)
(* One behaviour moves one part: the identity with several credentials,    *)
(* sessions and channels ("identity", with the .cfg's constants), one that *)
(* recovers twice ("recovery"), or the recovery proof store alone, under   *)
(* a caller that presents what it likes ("proofs").                        *)
(***************************************************************************)
EXTENDS OwnerIdentity

VARIABLE part
allVars == <<part, vars>>

\* Four commands and two attempts, for a recovery that is cancelled and begun
\* again, or completed and begun again.
Recovery == INSTANCE OwnerIdentity WITH
  CredentialIds <- {1, 2}, SessionIds <- {1}, ChannelRefs <- {1},
  CommandKeys <- {1, 2, 3, 4}, AttemptIds <- {1, 2}, Expiries <- {1, 3},
  DatabaseSkews <- {0}

\* More failures than two locks allow.
Store == INSTANCE RecoveryProofs WITH
  AttemptIds <- {1, 2}, Expiries <- {4}, MaxLockMs <- 2,
  MaxSafe <- 6, MaxTime <- 3, MaxFailures <- 3

ASSUME Recovery!PolicyAssumption
ASSUME Store!ProofsAssumption

---------------------------------------------------------------------------
InOrder(set) == \A x \in set : 1..x \subseteq set

MCInit ==
  /\ Init /\ part \in {"identity", "recovery", "proofs"}
  /\ InOrder(DOMAIN credentials) /\ verifiedChannelRef = 1

MCNext ==
  /\ \/ part = "identity" /\ Next
     \/ part = "recovery" /\ Recovery!Next
     \/ part = "proofs" /\ Store!ProofsNext /\ UNCHANGED identity
  /\ InOrder(DOMAIN credentials') /\ InOrder(DOMAIN sessions')
  /\ InOrder(DOMAIN processed') /\ InOrder(DOMAIN attempts')
  /\ UNCHANGED part

MCSpec == MCInit /\ [][MCNext]_allVars

---------------------------------------------------------------------------
(* What must hold; see OwnerIdentity and RecoveryProofs.                   *)

\* The Owner's record and the proof store agree as restore inspection demands
\* (postgresRestore.ts), when both are written by the identity's commands; and
\* the store never holds an attempt that the inspection would refuse, under
\* those commands and under any other caller.
RecordsMatchProofs ==
  /\ part # "proofs" => RecoveryMatchesProofs
  /\ part = "identity" => TypeOK
  /\ part = "proofs" => Store!ProofsTypeOK
  /\ Proofs!AttemptsAreCoherent

\* However often proofs are presented, on a clock that is stepped back and
\* forth (applyRecoveryProofAction), no more guesses are recorded than the
\* locks leave time for.
GuessesAreLimited == part = "proofs" => Store!GuessesAreLimited
=============================================================================
