------------------------- MODULE WebAuthnCeremonies -------------------------
(***************************************************************************)
(* Enrolling and signing in with WebAuthn (webauthn.ts) on the PostgreSQL  *)
(* state store (postgres.ts), as the identity routes of the runtime call   *)
(* them (identityApi.ts).  A request is several database statements with   *)
(* awaits between them, so requests interleave; a ceremony, a credential's *)
(* counter and an assertion proof are each guarded by a single statement.  *)
(*                                                                         *)
(* Verification itself is the library's: an assertion that reaches the     *)
(* server is genuine, and carries whatever counter its authenticator, or a *)
(* clone of it, had reached.  Ceremonies of an older configuration are not *)
(* modelled.                                                               *)
(***************************************************************************)
EXTENDS Integers, FiniteSets

CONSTANTS
  Requests,      \* requests the server handles at once
  CeremonyIds, CredentialIds,
  Offered,       \* purposes callers use; the routes: bootstrap_register, authenticate
  Counters,      \* signature counters of authenticators; 0 means none is kept
  CeremonyLifetimeMs, ProofLifetimeMs,
  MaxTime        \* bound: the last moment of the clock

ASSUME CeremonyAssumption ==
  /\ CeremonyLifetimeMs \in Nat \ {0} /\ ProofLifetimeMs \in Nat \ {0}
  /\ Counters \subseteq Nat /\ MaxTime \in Nat
  /\ Offered \subseteq {"bootstrap_register", "register", "authenticate", "reauthenticate"}

VARIABLES
  ceremonies,    \* table webauthn_ceremonies
  credentials,   \* table webauthn_credentials: credential -> counter
  proofs,        \* table webauthn_assertion_proofs
  owner,         \* the first credential of the Owner Identity, once initialised
  sessions,      \* the sessions the Owner Identity issued
  requests,      \* what each request under way has reached
  reenrolments,  \* history: registrations that fresh authentication allowed
  now

vars == <<ceremonies, credentials, proofs, owner, sessions, requests,
          reenrolments, now>>
tables == <<ceremonies, credentials, proofs>>

Registrations == {"bootstrap_register", "register"}
Authentications == {"authenticate", "reauthenticate"}
Purposes == Registrations \cup Authentications
Proofs == [by : Requests, ceremony : CeremonyIds, credential : CredentialIds,
           counter : Nat, purpose : Authentications, authenticatedAt : Nat]
Sessions == [by : Requests, ceremony : CeremonyIds, credential : CredentialIds,
             counter : Nat, authenticatedAt : Nat]
Steps == {"idle", "create", "consume", "register", "initialize", "read",
          "update", "issue", "authenticate", "redeem", "write"}

\* A request starts with what the client sent and gathers what it has read.
NoRequest == [step |-> "idle"]
StartRequest(purpose) == [step |-> "create", purpose |-> purpose]
FinishRequest(purpose, id, c, counter) ==
  [step |-> "consume", purpose |-> purpose, ceremony |-> id, credential |-> c,
   counter |-> counter, at |-> now, expected |-> 0]

TypeOK ==
  /\ DOMAIN ceremonies \subseteq CeremonyIds
  /\ \A id \in DOMAIN ceremonies : ceremonies[id] \in
       [purpose : Purposes, createdAt : Nat, consumed : BOOLEAN]
  /\ DOMAIN credentials \subseteq CredentialIds
  /\ \A c \in DOMAIN credentials : credentials[c] \in Nat
  /\ proofs \subseteq Proofs /\ sessions \subseteq Sessions
  /\ owner \subseteq DOMAIN credentials /\ Cardinality(owner) <= 1
  /\ \A r \in Requests : requests[r].step \in Steps
  /\ reenrolments \in Nat /\ now \in Nat

Init ==
  /\ ceremonies = <<>> /\ credentials = <<>> /\ proofs = {}
  /\ owner = {} /\ sessions = {} /\ reenrolments = 0 /\ now = 0
  /\ requests = [r \in Requests |-> NoRequest]

With(f, x, y) == [z \in DOMAIN f \cup {x} |-> IF z = x THEN y ELSE f[z]]

At(r, step) == requests[r].step = step
Goto(r, step) == requests' = [requests EXCEPT ![r].step = step]
Begin(r, request) == At(r, "idle") /\ requests' = [requests EXCEPT ![r] = request]
\* The request is answered, whether it succeeded or was denied.
Answer(r) == requests' = [requests EXCEPT ![r] = NoRequest]
-----------------------------------------------------------------------------
(* Options: what allows a ceremony to begin.                               *)

StartBootstrap(r) ==
  /\ DOMAIN credentials = {}
  /\ Begin(r, StartRequest("bootstrap_register"))
  /\ UNCHANGED <<tables, owner, sessions, reenrolments, now>>

StartAuthentication(r, purpose) ==
  /\ DOMAIN credentials # {}
  /\ Begin(r, StartRequest(purpose))
  /\ UNCHANGED <<tables, owner, sessions, reenrolments, now>>

Redeemable(proof) ==
  proof.authenticatedAt <= now /\ now <= proof.authenticatedAt + ProofLifetimeMs

\* The proof is consumed before its purpose is looked at.
StartRegistration(r, proof) ==
  /\ proof \in proofs /\ Redeemable(proof)
  /\ proofs' = proofs \ {proof}
  /\ At(r, "idle")
  /\ IF proof.purpose = "reauthenticate"
     THEN Begin(r, StartRequest("register")) /\ reenrolments' = reenrolments + 1
     ELSE Answer(r) /\ UNCHANGED reenrolments
  /\ UNCHANGED <<ceremonies, credentials, owner, sessions, now>>

CreateCeremony(r, id) ==
  /\ At(r, "create") /\ id \notin DOMAIN ceremonies
  /\ ceremonies' = With(ceremonies, id,
       [purpose |-> requests[r].purpose, createdAt |-> now, consumed |-> FALSE])
  /\ Answer(r)
  /\ UNCHANGED <<credentials, proofs, owner, sessions, reenrolments, now>>
-----------------------------------------------------------------------------
(* Verification: the clock is read once, before the first statement.       *)

Finish(r, purpose, id, c, counter) ==
  /\ id \in DOMAIN ceremonies
  /\ Begin(r, FinishRequest(purpose, id, c, counter))
  /\ UNCHANGED <<tables, owner, sessions, reenrolments, now>>

\* Fault: a ceremony may be finished more than once.
ConsumableAgain(ceremony, purpose, at) ==
  /\ ceremony.purpose = purpose
  /\ ceremony.createdAt <= at /\ at <= ceremony.createdAt + CeremonyLifetimeMs

ConsumableCeremony(ceremony, purpose, at) ==
  /\ ~ceremony.consumed /\ ceremony.purpose = purpose
  /\ ceremony.createdAt <= at /\ at <= ceremony.createdAt + CeremonyLifetimeMs

\* What comes after the ceremony.
NextStatement(purpose) == IF purpose \in Registrations THEN "register" ELSE "read"

ConsumeCeremony(r) ==
  LET id == requests[r].ceremony
  IN /\ At(r, "consume")
     /\ IF ConsumableCeremony(ceremonies[id], requests[r].purpose, requests[r].at)
        THEN /\ ceremonies' = [ceremonies EXCEPT ![id].consumed = TRUE]
             /\ Goto(r, NextStatement(requests[r].purpose))
        ELSE Answer(r) /\ UNCHANGED ceremonies
     /\ UNCHANGED <<credentials, proofs, owner, sessions, reenrolments, now>>

\* Fault: the count of credentials is not taken again under the table lock.
EnrollableAnyway(purpose, c) == c \notin DOMAIN credentials

Enrollable(purpose, c) ==
  /\ purpose = "bootstrap_register" => DOMAIN credentials = {}
  /\ c \notin DOMAIN credentials

RegisterCredential(r) ==
  LET c == requests[r].credential
      purpose == requests[r].purpose
  IN /\ At(r, "register")
     /\ IF Enrollable(purpose, c)
        THEN /\ credentials' = With(credentials, c, requests[r].counter)
             /\ IF purpose = "bootstrap_register" THEN Goto(r, "initialize") ELSE Answer(r)
        ELSE Answer(r) /\ UNCHANGED credentials
     /\ UNCHANGED <<ceremonies, proofs, owner, sessions, reenrolments, now>>

\* identity.initialize, in a transaction of its own after the enrolment.
InitializeIdentity(r) ==
  /\ At(r, "initialize")
  /\ owner' = IF owner = {} THEN {requests[r].credential} ELSE owner
  /\ Answer(r)
  /\ UNCHANGED <<tables, sessions, reenrolments, now>>

\* SimpleWebAuthn wants a counter that has grown, unless none is kept.
CounterVerifies(stored, counter) ==
  (stored = 0 /\ counter = 0) \/ counter > stored

ReadCredential(r) ==
  LET c == requests[r].credential
  IN /\ At(r, "read")
     /\ IF c \in DOMAIN credentials /\ CounterVerifies(credentials[c], requests[r].counter)
        THEN requests' = [requests EXCEPT ![r].step = "update",
                                          ![r].expected = credentials[c]]
        ELSE Answer(r)
     /\ UNCHANGED <<tables, owner, sessions, reenrolments, now>>

\* Fault: only growth is asked for, not the counter that was verified.
CounterGrows(c, expected, next) == next >= credentials[c]

CounterIsCurrent(c, expected, next) ==
  credentials[c] = expected /\ next >= credentials[c]

UpdateCounter(r) ==
  LET request == requests[r]
  IN /\ At(r, "update")
     /\ IF CounterIsCurrent(request.credential, request.expected, request.counter)
        THEN /\ credentials' = [credentials EXCEPT ![request.credential] = request.counter]
             /\ Goto(r, "issue")
        ELSE Answer(r) /\ UNCHANGED credentials
     /\ UNCHANGED <<ceremonies, proofs, owner, sessions, reenrolments, now>>

IssueProof(r) ==
  LET request == requests[r]
  IN /\ At(r, "issue")
     /\ proofs' = proofs \cup
          {[by |-> r, ceremony |-> request.ceremony, credential |-> request.credential,
            counter |-> request.counter, purpose |-> request.purpose,
            authenticatedAt |-> request.at]}
     /\ IF request.purpose = "authenticate" THEN Goto(r, "authenticate") ELSE Answer(r)
     /\ UNCHANGED <<ceremonies, credentials, owner, sessions, reenrolments, now>>

\* identity.authenticate reads its own clock and then the credential's status.
Authenticate(r) ==
  /\ At(r, "authenticate")
  /\ IF requests[r].credential \in owner
     THEN requests' = [requests EXCEPT ![r].step = "redeem", ![r].at = now]
     ELSE Answer(r)
  /\ UNCHANGED <<tables, owner, sessions, reenrolments, now>>

\* The proof the request issued is deleted by a statement that commits by
\* itself, inside the transaction that will write the session.
RedeemProof(r) ==
  /\ At(r, "redeem")
  /\ IF \E proof \in proofs : proof.by = r /\ proof.purpose = "authenticate"
                              /\ proof.ceremony = requests[r].ceremony /\ Redeemable(proof)
     THEN /\ proofs' = {proof \in proofs :
                          proof.by # r \/ proof.ceremony # requests[r].ceremony}
          /\ Goto(r, "write")
     ELSE Answer(r) /\ UNCHANGED proofs
  /\ UNCHANGED <<ceremonies, credentials, owner, sessions, reenrolments, now>>

WriteSession(r) ==
  LET request == requests[r]
  IN /\ At(r, "write")
     /\ sessions' = sessions \cup
          {[by |-> r, ceremony |-> request.ceremony, credential |-> request.credential,
            counter |-> request.counter, authenticatedAt |-> request.at]}
     /\ Answer(r)
     /\ UNCHANGED <<tables, owner, reenrolments, now>>

\* The process, or the connection, is lost between two statements.
Abandon(r) ==
  /\ ~At(r, "idle") /\ Answer(r)
  /\ UNCHANGED <<tables, owner, sessions, reenrolments, now>>

Tick == now < MaxTime /\ now' = now + 1
        /\ UNCHANGED <<tables, owner, sessions, requests, reenrolments>>
-----------------------------------------------------------------------------
Start(r) ==
  \/ "bootstrap_register" \in Offered /\ StartBootstrap(r)
  \/ \E purpose \in Authentications \cap Offered : StartAuthentication(r, purpose)
  \/ "register" \in Offered /\ \E proof \in proofs : StartRegistration(r, proof)
  \/ \E id \in CeremonyIds : CreateCeremony(r, id)

Step(r) ==
  \/ ConsumeCeremony(r) \/ RegisterCredential(r) \/ InitializeIdentity(r)
  \/ ReadCredential(r) \/ UpdateCounter(r) \/ IssueProof(r)
  \/ Authenticate(r) \/ RedeemProof(r) \/ WriteSession(r)

Next ==
  \/ \E r \in Requests :
       \/ Start(r)
       \/ \E purpose \in Offered, id \in CeremonyIds, c \in CredentialIds,
             counter \in Counters : Finish(r, purpose, id, c, counter)
       \/ Step(r)
       \/ Abandon(r)
  \/ Tick

Spec == Init /\ [][Next]_vars
-----------------------------------------------------------------------------
(* What must hold.                                                         *)

\* A ceremony leads to one sign-in at most, however many requests finish it,
\* and only within the life of its challenge and of the proof that followed,
\* whatever the request waited for in between.
OneSessionPerCeremony ==
  \A s \in sessions :
    /\ \A t \in sessions : s.ceremony = t.ceremony => s = t
    /\ s.authenticatedAt <= ceremonies[s.ceremony].createdAt
                            + CeremonyLifetimeMs + ProofLifetimeMs

\* An authenticator that counts and its clone cannot both sign in with the
\* same count, nor in the wrong order, even when they race.
ClonesAreNoticed ==
  \A s, t \in sessions :
    s.credential = t.credential /\ s.counter = t.counter /\ s.counter > 0 => s = t

\* The first credential is enrolled by the one bootstrap there is, every other
\* by an authentication made for that.
EnrolmentIsAuthorized == Cardinality(DOMAIN credentials) <= 1 + reenrolments

\* The tables keep their types, and every credential but the bootstrap's was
\* enrolled by an authentication made for that: no two requests share one, and
\* no one bootstraps a store that is in use.
EnrolmentHolds == TypeOK /\ EnrolmentIsAuthorized
=============================================================================
