------------------------ MODULE MCWebAuthnCeremonies ------------------------
(***************************************************************************)
(* Ceremonies small enough for TLC.  One behaviour is one of two parts:    *)
(* "sign_in", once an Owner is enrolled, with counting authenticators, or  *)
(* "enrolment", from an empty store, with every purpose.  Ceremonies and   *)
(* credentials are numbers, and fresh ones are taken in order; concurrent  *)
(* requests are interchangeable.                                           *)
(***************************************************************************)
EXTENDS WebAuthnCeremonies, TLC

VARIABLE part
allVars == <<part, vars>>

SignIn == INSTANCE WebAuthnCeremonies WITH
  CeremonyIds <- {1, 2}, CredentialIds <- {1}, Offered <- {"authenticate"}

Enrolment == INSTANCE WebAuthnCeremonies WITH
  Counters <- {0}, MaxTime <- 0

ASSUME SignIn!CeremonyAssumption /\ Enrolment!CeremonyAssumption

---------------------------------------------------------------------------
InOrder(set) == \A x \in set : 1..x \subseteq set

\* What a bootstrap leaves behind, but for its own ceremony.
Enrolled ==
  /\ ceremonies = <<>> /\ credentials = With(<<>>, 1, 0) /\ proofs = {}
  /\ owner = {1} /\ sessions = {} /\ reenrolments = 0 /\ now = 0
  /\ requests = [r \in Requests |-> NoRequest]

MCInit ==
  \/ part = "sign_in" /\ Enrolled
  \/ part = "enrolment" /\ Init

MCNext ==
  /\ \/ part = "sign_in" /\ SignIn!Next
     \/ part = "enrolment" /\ Enrolment!Next
  /\ InOrder(DOMAIN ceremonies') /\ InOrder(DOMAIN credentials')
  /\ UNCHANGED part

MCSpec == MCInit /\ [][MCNext]_allVars

Symmetry == Permutations(Requests)

=============================================================================
