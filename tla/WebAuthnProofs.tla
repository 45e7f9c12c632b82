--------------------------- MODULE WebAuthnProofs ---------------------------
(***************************************************************************)
(* Proofs about the WebAuthn ceremonies: types, one sign-in per ceremony,  *)
(* and no two sign-ins with one count of an authenticator, for any number  *)
(* of requests, ceremonies and credentials and any interleaving of them.   *)
(***************************************************************************)
EXTENDS WebAuthnCeremonies, FiniteSetTheorems, TLAPS

-----------------------------------------------------------------------------
(* Types.                                                                  *)

Ceremonies == [purpose : Purposes, createdAt : Nat, consumed : BOOLEAN]
CreateRequests == [step : {"create"}, purpose : Purposes]
FinishSteps == Steps \ {"idle", "create"}
FinishRequests ==
  [step : FinishSteps, purpose : Purposes, ceremony : CeremonyIds,
   credential : CredentialIds, counter : Nat, at : Nat, expected : Nat]

\* A request has answered its ceremony, and may still register a credential
\* or issue a proof on the strength of it.
Past(r) == requests[r].step \in FinishSteps \ {"consume"}

(* What a request has gathered, and what it has checked by each step.      *)
RequestsTyped ==
  /\ requests \in [Requests -> {NoRequest} \cup CreateRequests \cup FinishRequests]
  /\ \A r \in Requests : requests[r].step \in FinishSteps =>
       requests[r].ceremony \in DOMAIN ceremonies /\ requests[r].at <= now
  /\ \A r \in Requests :
       /\ At(r, "register") => requests[r].purpose \in Registrations
       /\ At(r, "initialize") => requests[r].credential \in DOMAIN credentials
       /\ Past(r) /\ ~At(r, "register") /\ ~At(r, "initialize") =>
            requests[r].purpose \in Authentications

TypeInv ==
  /\ TypeOK /\ RequestsTyped
  /\ ceremonies \in [DOMAIN ceremonies -> Ceremonies]
  /\ credentials \in [DOMAIN credentials -> Nat]

(* The requests after a step that replaces one of them.                    *)
LEMMA OneRequest ==
  ASSUME RequestsTyped, NEW r \in Requests, NEW request,
         requests' = [requests EXCEPT ![r] = request]
  PROVE  requests'[r] = request /\ \A q \in Requests \ {r} : requests'[q] = requests[q]
BY DEF RequestsTyped

(* A request past its start carries all its fields.                        *)
LEMMA RequestFields ==
  ASSUME RequestsTyped, NEW r \in Requests, requests[r].step \in FinishSteps
  PROVE  requests[r] \in FinishRequests
<1>1. requests[r] \in {NoRequest} \cup CreateRequests \cup FinishRequests
  BY DEF RequestsTyped
<1>2. requests[r].step # "idle" /\ requests[r].step # "create"
  BY DEF FinishSteps
<1>3. QED
  BY <1>1, <1>2 DEF NoRequest, CreateRequests

(* An answered request is gone.                                            *)
LEMMA AnswerRequest ==
  ASSUME RequestsTyped, NEW r \in Requests, Answer(r)
  PROVE  /\ requests'[r].step = "idle"
         /\ \A q \in Requests \ {r} : requests'[q] = requests[q]
BY DEF Answer, NoRequest, RequestsTyped

(* A request that begins.                                                  *)
LEMMA BeginRequest ==
  ASSUME RequestsTyped, NEW r \in Requests, NEW request, Begin(r, request)
  PROVE  /\ requests'[r] = request
         /\ \A q \in Requests \ {r} : requests'[q] = requests[q]
BY DEF Begin, RequestsTyped

(* A request that goes on keeps what it has gathered.                      *)
LEMMA GotoRequest ==
  ASSUME RequestsTyped, NEW r \in Requests, requests[r].step \in FinishSteps,
         NEW step, Goto(r, step)
  PROVE  /\ requests'[r].step = step
         /\ requests'[r].purpose = requests[r].purpose
         /\ requests'[r].ceremony = requests[r].ceremony
         /\ requests'[r].credential = requests[r].credential
         /\ requests'[r].counter = requests[r].counter
         /\ requests'[r].at = requests[r].at
         /\ \A q \in Requests \ {r} : requests'[q] = requests[q]
<1>1. requests[r] \in FinishRequests
  BY RequestFields
<1>2. /\ requests'[r] = [requests[r] EXCEPT !.step = step]
      /\ \A q \in Requests \ {r} : requests'[q] = requests[q]
  BY DEF Goto, RequestsTyped
<1>3. QED
  BY <1>1, <1>2 DEF FinishRequests

LEMMA InitTypes == Init => TypeInv
<1>1. SUFFICES ASSUME Init PROVE TypeInv
  OBVIOUS
<1>2. /\ DOMAIN ceremonies = {} /\ DOMAIN credentials = {}
      /\ \A r \in Requests : requests[r].step = "idle"
  BY <1>1 DEF Init, NoRequest
<1>3. Cardinality(owner) = 0
  BY <1>1, FS_EmptySet DEF Init
<1>4. TypeOK
  BY <1>1, <1>2, <1>3 DEF Init, TypeOK, Steps
<1>5. RequestsTyped
  BY <1>1, <1>2 DEF Init, RequestsTyped, FinishSteps, At, Past
<1>6. ceremonies \in [DOMAIN ceremonies -> Ceremonies]
  BY <1>1, <1>2 DEF Init
<1>7. credentials \in [DOMAIN credentials -> Nat]
  BY <1>1, <1>2 DEF Init
<1>8. QED
  BY <1>4, <1>5, <1>6, <1>7 DEF TypeInv

(* Replacing one request by one that is typed keeps the requests typed,    *)
(* as long as no ceremony and no credential disappears.                    *)
LEMMA ReplaceRequest ==
  ASSUME TypeInv, NEW r \in Requests,
         NEW request \in {NoRequest} \cup CreateRequests \cup FinishRequests,
         requests' = [requests EXCEPT ![r] = request],
         DOMAIN ceremonies \subseteq DOMAIN ceremonies',
         DOMAIN credentials \subseteq DOMAIN credentials',
         now' = now,
         request.step \in FinishSteps =>
           request.ceremony \in DOMAIN ceremonies' /\ request.at <= now,
         request.step = "register" => request.purpose \in Registrations,
         request.step = "initialize" => request.credential \in DOMAIN credentials',
         request.step \in FinishSteps \ {"consume", "register", "initialize"} =>
           request.purpose \in Authentications
  PROVE  RequestsTyped' /\ (\A q \in Requests : requests'[q].step \in Steps)
<1>1. /\ requests'[r] = request
      /\ \A q \in Requests \ {r} : requests'[q] = requests[q]
  BY OneRequest DEF TypeInv
<1>2. requests' \in [Requests -> {NoRequest} \cup CreateRequests \cup FinishRequests]
  BY DEF TypeInv, RequestsTyped
<1>3. \A q \in Requests : requests'[q].step \in Steps
  BY <1>2 DEF NoRequest, CreateRequests, FinishRequests, FinishSteps, Steps
<1>4. \A q \in Requests : requests'[q].step \in FinishSteps =>
        requests'[q].ceremony \in DOMAIN ceremonies' /\ requests'[q].at <= now'
  BY <1>1 DEF TypeInv, RequestsTyped
<1>5. \A q \in Requests :
        /\ requests'[q].step = "register" => requests'[q].purpose \in Registrations
        /\ requests'[q].step = "initialize" =>
             requests'[q].credential \in DOMAIN credentials'
        /\ requests'[q].step \in FinishSteps \ {"consume", "register", "initialize"} =>
             requests'[q].purpose \in Authentications
  BY <1>1 DEF TypeInv, RequestsTyped, At, Past
<1>6. QED
  BY <1>2, <1>3, <1>4, <1>5 DEF RequestsTyped, At, Past

(* Answering a request.                                                    *)
LEMMA AnswerTyped ==
  ASSUME TypeInv, NEW r \in Requests, Answer(r), now' = now,
         DOMAIN ceremonies \subseteq DOMAIN ceremonies',
         DOMAIN credentials \subseteq DOMAIN credentials'
  PROVE  RequestsTyped' /\ (\A q \in Requests : requests'[q].step \in Steps)
<1>1. /\ NoRequest.step \notin FinishSteps
      /\ NoRequest.step # "register" /\ NoRequest.step # "initialize"
  BY DEF NoRequest, FinishSteps
<1>2. QED
  BY <1>1, ReplaceRequest DEF Answer

(* Moving a request on to a step it is ready for.                          *)
LEMMA GotoTyped ==
  ASSUME TypeInv, NEW r \in Requests, requests[r].step \in FinishSteps,
         NEW step \in FinishSteps \ {"consume"}, Goto(r, step), now' = now,
         DOMAIN ceremonies \subseteq DOMAIN ceremonies',
         DOMAIN credentials \subseteq DOMAIN credentials',
         step = "register" => requests[r].purpose \in Registrations,
         step = "initialize" => requests[r].credential \in DOMAIN credentials',
         step \notin {"register", "initialize"} =>
           requests[r].purpose \in Authentications
  PROVE  RequestsTyped' /\ (\A q \in Requests : requests'[q].step \in Steps)
<1> DEFINE request == [requests[r] EXCEPT !.step = step]
<1>1. requests[r] \in FinishRequests
  BY RequestFields DEF TypeInv
<1>2. /\ request \in FinishRequests /\ request.step = step
      /\ request.ceremony = requests[r].ceremony /\ request.at = requests[r].at
      /\ request.credential = requests[r].credential
      /\ request.purpose = requests[r].purpose
  BY <1>1 DEF FinishRequests
<1>3. requests' = [requests EXCEPT ![r] = request]
  BY DEF Goto
<1>4. request.ceremony \in DOMAIN ceremonies' /\ request.at <= now
  BY <1>2 DEF TypeInv, RequestsTyped
<1>5. QED
  BY <1>2, <1>3, <1>4, ReplaceRequest

(* Adding an entry to a table.                                             *)
LEMMA WithEntry ==
  ASSUME NEW f, NEW x, NEW y
  PROVE  /\ DOMAIN With(f, x, y) = DOMAIN f \cup {x}
         /\ With(f, x, y)[x] = y
         /\ \A z \in DOMAIN f \ {x} : With(f, x, y)[z] = f[z]
         /\ With(f, x, y) = [z \in DOMAIN f \cup {x} |-> With(f, x, y)[z]]
BY DEF With

(* It keeps a table typed.                                                 *)
LEMMA WithTyped ==
  ASSUME NEW S, NEW f, f \in [DOMAIN f -> S], NEW x, NEW y \in S
  PROVE  With(f, x, y) \in [DOMAIN f \cup {x} -> S]
BY DEF With

(* Starting a request.                                                     *)
LEMMA StartTypes ==
  ASSUME TypeInv, NEW r \in Requests, Start(r)
  PROVE  TypeInv'
<1>1. \A purpose \in Purposes :
        /\ StartRequest(purpose) \in CreateRequests
        /\ StartRequest(purpose).step \notin FinishSteps
        /\ StartRequest(purpose).step \notin {"register", "initialize"}
  BY DEF StartRequest, CreateRequests, FinishSteps
<1>2. CASE StartBootstrap(r) \/ \E purpose \in Authentications : StartAuthentication(r, purpose)
  <2>1. PICK purpose \in Purposes : Begin(r, StartRequest(purpose))
    BY <1>2 DEF StartBootstrap, StartAuthentication, Purposes, Registrations
  <2>2. UNCHANGED <<tables, owner, sessions, reenrolments, now>>
    BY <1>2 DEF StartBootstrap, StartAuthentication
  <2>3. RequestsTyped' /\ \A q \in Requests : requests'[q].step \in Steps
    BY <1>1, <2>1, <2>2, ReplaceRequest DEF Begin, tables
  <2>4. QED
    BY <2>2, <2>3 DEF TypeInv, TypeOK, tables
<1>3. ASSUME NEW proof \in proofs, StartRegistration(r, proof) PROVE TypeInv'
  <2>1. /\ UNCHANGED <<ceremonies, credentials, owner, sessions, now>>
        /\ proofs' \subseteq proofs
    BY <1>3 DEF StartRegistration
  <2>2. reenrolments' \in Nat
    BY <1>3 DEF StartRegistration, TypeInv, TypeOK
  <2>3. RequestsTyped' /\ \A q \in Requests : requests'[q].step \in Steps
    <3>1. CASE Answer(r)
      BY <2>1, <3>1, AnswerTyped
    <3>2. CASE Begin(r, StartRequest("register"))
      <4>1. "register" \in Purposes
        BY DEF Purposes, Registrations
      <4>2. QED
        BY <1>1, <2>1, <3>2, <4>1, ReplaceRequest DEF Begin
    <3>3. QED
      BY <1>3, <3>1, <3>2 DEF StartRegistration
  <2>4. QED
    BY <2>1, <2>2, <2>3 DEF TypeInv, TypeOK
<1>4. ASSUME NEW id \in CeremonyIds, CreateCeremony(r, id) PROVE TypeInv'
  <2> DEFINE ceremony ==
        [purpose |-> requests[r].purpose, createdAt |-> now, consumed |-> FALSE]
  <2>1. /\ ceremonies' = With(ceremonies, id, ceremony)
        /\ At(r, "create") /\ Answer(r)
        /\ UNCHANGED <<credentials, proofs, owner, sessions, reenrolments, now>>
    BY <1>4 DEF CreateCeremony
  <2>2. requests[r].purpose \in Purposes
    <3>1. requests[r] \in {NoRequest} \cup CreateRequests \cup FinishRequests
      BY DEF TypeInv, RequestsTyped
    <3>2. requests[r].step = "create"
      BY <2>1 DEF At
    <3>3. requests[r] # NoRequest
      BY <3>2 DEF NoRequest
    <3>4. QED
      BY <3>1, <3>3 DEF CreateRequests, FinishRequests
  <2>3. ceremony \in Ceremonies
    BY <2>2 DEF Ceremonies, TypeInv, TypeOK
  <2>4. /\ DOMAIN ceremonies' = DOMAIN ceremonies \cup {id}
        /\ ceremonies' \in [DOMAIN ceremonies' -> Ceremonies]
    <3> HIDE DEF ceremony
    <3>1. DOMAIN ceremonies' = DOMAIN ceremonies \cup {id}
      BY <2>1, WithEntry
    <3>2. ceremonies' \in [DOMAIN ceremonies \cup {id} -> Ceremonies]
      BY <2>1, <2>3, WithTyped DEF TypeInv
    <3>3. QED
      BY <3>1, <3>2
  <2>5. RequestsTyped' /\ \A q \in Requests : requests'[q].step \in Steps
    BY <2>1, <2>4, AnswerTyped
  <2>6. QED
    BY <1>4, <2>1, <2>4, <2>5 DEF TypeInv, TypeOK, Ceremonies
<1>5. QED
  BY <1>2, <1>3, <1>4 DEF Start

(* Beginning to verify an answer.                                          *)
LEMMA FinishTypes ==
  ASSUME TypeInv, NEW r \in Requests, NEW purpose \in Offered, NEW id \in CeremonyIds,
         NEW c \in CredentialIds, NEW counter \in Counters,
         Finish(r, purpose, id, c, counter)
  PROVE  TypeInv'
<1> DEFINE request == FinishRequest(purpose, id, c, counter)
<1>1. purpose \in Purposes /\ counter \in Nat /\ now \in Nat
  <2>1. /\ Offered \subseteq {"bootstrap_register", "register", "authenticate",
                              "reauthenticate"}
        /\ Counters \subseteq Nat
    BY CeremonyAssumption
  <2>2. purpose \in Purposes
    BY <2>1 DEF Purposes, Registrations, Authentications
  <2>3. QED
    BY <2>1, <2>2 DEF TypeInv, TypeOK
<1>2. /\ request \in FinishRequests /\ request.step = "consume"
      /\ request.ceremony = id /\ request.at = now
  BY <1>1 DEF FinishRequest, FinishRequests, FinishSteps, Steps
<1>3. /\ id \in DOMAIN ceremonies /\ requests' = [requests EXCEPT ![r] = request]
      /\ UNCHANGED <<tables, owner, sessions, reenrolments, now>>
  BY DEF Finish, Begin
<1>4. RequestsTyped' /\ \A q \in Requests : requests'[q].step \in Steps
  <2> HIDE DEF request
  <2>1. /\ request.step \notin {"register", "initialize"}
        /\ request.step \notin FinishSteps \ {"consume", "register", "initialize"}
    BY <1>2
  <2>2. request.ceremony \in DOMAIN ceremonies' /\ request.at <= now
    BY <1>1, <1>2, <1>3 DEF tables
  <2>3. QED
    BY <1>2, <1>3, <2>1, <2>2, ReplaceRequest DEF tables
<1>5. QED
  BY <1>3, <1>4 DEF TypeInv, TypeOK, tables

(* Answering the ceremony and registering the credential.                  *)
LEMMA EnrolTypes ==
  ASSUME TypeInv, NEW r \in Requests,
         ConsumeCeremony(r) \/ RegisterCredential(r) \/ InitializeIdentity(r)
  PROVE  TypeInv'
<1>1. CASE ConsumeCeremony(r)
  <2> DEFINE id == requests[r].ceremony
             next == NextStatement(requests[r].purpose)
  <2>1. /\ At(r, "consume")
        /\ UNCHANGED <<credentials, proofs, owner, sessions, reenrolments, now>>
        /\ \/ Answer(r) /\ UNCHANGED ceremonies
           \/ /\ ceremonies' = [ceremonies EXCEPT ![id].consumed = TRUE]
              /\ Goto(r, next)
    BY <1>1 DEF ConsumeCeremony
  <2>2. /\ requests[r].step \in FinishSteps /\ requests[r] \in FinishRequests
        /\ id \in DOMAIN ceremonies
    BY <2>1, RequestFields DEF TypeInv, RequestsTyped, At, FinishSteps, Steps
  <2>3. /\ DOMAIN ceremonies' = DOMAIN ceremonies
        /\ ceremonies' \in [DOMAIN ceremonies' -> Ceremonies]
    <3>1. ceremonies[id] \in Ceremonies
      BY <2>2 DEF TypeInv
    <3>2. [ceremonies[id] EXCEPT !.consumed = TRUE] \in Ceremonies
      BY <3>1 DEF Ceremonies
    <3>3. QED
      BY <2>1, <3>2 DEF TypeInv
  <2>4. RequestsTyped' /\ \A q \in Requests : requests'[q].step \in Steps
    <3>1. CASE Answer(r)
      BY <2>1, <2>3, <3>1, AnswerTyped
    <3>2. CASE Goto(r, next)
      <4>1. /\ next \in {"register", "read"}
            /\ next = "register" => requests[r].purpose \in Registrations
            /\ next = "read" => requests[r].purpose \in Authentications
        BY <2>2 DEF NextStatement, FinishRequests, Purposes
      <4>2. next \in FinishSteps \ {"consume"} /\ next # "initialize"
        BY <4>1 DEF FinishSteps, Steps
      <4>3. QED
        BY <2>1, <2>2, <2>3, <3>2, <4>1, <4>2, GotoTyped
    <3>3. QED
      BY <2>1, <3>1, <3>2
  <2>5. QED
    BY <2>1, <2>3, <2>4 DEF TypeInv, TypeOK, Ceremonies
<1>2. CASE RegisterCredential(r)
  <2> DEFINE c == requests[r].credential
  <2>1. /\ At(r, "register")
        /\ UNCHANGED <<ceremonies, proofs, owner, sessions, reenrolments, now>>
        /\ \/ Answer(r) /\ UNCHANGED credentials
           \/ /\ credentials' = With(credentials, c, requests[r].counter)
              /\ Goto(r, "initialize") \/ Answer(r)
    BY <1>2 DEF RegisterCredential
  <2>2. requests[r].step \in FinishSteps /\ requests[r] \in FinishRequests
    BY <2>1, RequestFields DEF TypeInv, RequestsTyped, At, FinishSteps, Steps
  <2>3. c \in CredentialIds /\ requests[r].counter \in Nat
    BY <2>2 DEF FinishRequests
  <2>4. /\ DOMAIN credentials \subseteq DOMAIN credentials'
        /\ DOMAIN credentials' \subseteq CredentialIds
        /\ credentials' \in [DOMAIN credentials' -> Nat]
    <3>1. CASE UNCHANGED credentials
      BY <3>1 DEF TypeInv, TypeOK
    <3>2. CASE credentials' = With(credentials, c, requests[r].counter)
      <4>1. DOMAIN credentials' = DOMAIN credentials \cup {c}
        BY <3>2 DEF With
      <4>2. credentials' \in [DOMAIN credentials \cup {c} -> Nat]
        BY <2>3, <3>2, WithTyped DEF TypeInv
      <4>3. QED
        BY <2>3, <4>1, <4>2 DEF TypeInv, TypeOK
    <3>3. QED
      BY <2>1, <3>1, <3>2
  <2>5. RequestsTyped' /\ \A q \in Requests : requests'[q].step \in Steps
    <3>1. CASE Answer(r)
      BY <2>1, <2>4, <3>1, AnswerTyped
    <3>2. CASE credentials' = With(credentials, c, requests[r].counter) /\ Goto(r, "initialize")
      <4>1. DOMAIN credentials' = DOMAIN credentials \cup {c}
        BY <3>2 DEF With
      <4>2. "initialize" \in FinishSteps \ {"consume"}
        BY DEF FinishSteps, Steps
      <4>3. QED
        BY <2>1, <2>2, <2>4, <3>2, <4>1, <4>2, GotoTyped
    <3>3. QED
      BY <2>1, <3>1, <3>2
  <2>6. QED
    BY <2>1, <2>4, <2>5 DEF TypeInv, TypeOK
<1>3. CASE InitializeIdentity(r)
  <2>1. /\ At(r, "initialize") /\ Answer(r)
        /\ owner' = IF owner = {} THEN {requests[r].credential} ELSE owner
        /\ UNCHANGED <<tables, sessions, reenrolments, now>>
    BY <1>3 DEF InitializeIdentity
  <2>2. requests[r].credential \in DOMAIN credentials
    BY <2>1 DEF TypeInv, RequestsTyped
  <2>3. owner' \subseteq DOMAIN credentials /\ Cardinality(owner') <= 1
    <3>1. Cardinality({requests[r].credential}) = 1
      BY FS_Singleton
    <3>2. QED
      BY <2>1, <2>2, <3>1 DEF TypeInv, TypeOK
  <2>4. RequestsTyped' /\ \A q \in Requests : requests'[q].step \in Steps
    BY <2>1, AnswerTyped DEF tables
  <2>5. QED
    BY <2>1, <2>3, <2>4 DEF TypeInv, TypeOK, tables
<1>4. QED
  BY <1>1, <1>2, <1>3

(* Verifying the credential and issuing the proof.                         *)
LEMMA VerifyTypes ==
  ASSUME TypeInv, NEW r \in Requests,
         ReadCredential(r) \/ UpdateCounter(r) \/ IssueProof(r)
  PROVE  TypeInv'
<1> DEFINE c == requests[r].credential
<1>1. /\ requests[r].step \in FinishSteps /\ requests[r] \in FinishRequests
      /\ requests[r].ceremony \in DOMAIN ceremonies /\ requests[r].at <= now
      /\ requests[r].purpose \in Authentications
  <2>1. requests[r].step \in {"read", "update", "issue"}
    BY DEF ReadCredential, UpdateCounter, IssueProof, At
  <2>2. Past(r) /\ ~At(r, "register") /\ ~At(r, "initialize")
    BY <2>1 DEF Past, At, FinishSteps, Steps
  <2>3. QED
    BY <2>2, RequestFields DEF TypeInv, RequestsTyped, Past
<1>2. {"update", "issue", "authenticate"} \subseteq
        FinishSteps \ {"consume", "register", "initialize"}
  BY DEF FinishSteps, Steps
<1>3. CASE ReadCredential(r)
  <2> DEFINE request == [requests[r] EXCEPT !.step = "update", !.expected = credentials[c]]
  <2>1. UNCHANGED <<tables, owner, sessions, reenrolments, now>>
    BY <1>3 DEF ReadCredential
  <2>2. RequestsTyped' /\ \A q \in Requests : requests'[q].step \in Steps
    <3>1. CASE Answer(r)
      BY <2>1, <3>1, AnswerTyped DEF tables
    <3>2. CASE c \in DOMAIN credentials /\ requests' = [requests EXCEPT ![r] = request]
      <4>1. credentials[c] \in Nat
        BY <3>2 DEF TypeInv
      <4>2. /\ request \in FinishRequests /\ request.step = "update"
            /\ request.ceremony = requests[r].ceremony /\ request.at = requests[r].at
            /\ request.purpose = requests[r].purpose
        BY <1>1, <1>2, <4>1 DEF FinishRequests
      <4> HIDE DEF request
      <4>3. QED
        BY <1>1, <2>1, <3>2, <4>2, ReplaceRequest DEF tables
    <3>3. QED
      BY <1>3, <3>1, <3>2 DEF ReadCredential
  <2>3. QED
    BY <2>1, <2>2 DEF TypeInv, TypeOK, tables
<1>4. CASE UpdateCounter(r)
  <2>1. /\ UNCHANGED <<ceremonies, proofs, owner, sessions, reenrolments, now>>
        /\ \/ Answer(r) /\ UNCHANGED credentials
           \/ /\ credentials' = [credentials EXCEPT ![c] = requests[r].counter]
              /\ Goto(r, "issue")
    BY <1>4 DEF UpdateCounter
  <2>2. /\ DOMAIN credentials' = DOMAIN credentials
        /\ credentials' \in [DOMAIN credentials' -> Nat]
    <3>1. requests[r].counter \in Nat
      BY <1>1 DEF FinishRequests
    <3>2. QED
      BY <2>1, <3>1 DEF TypeInv
  <2>3. RequestsTyped' /\ \A q \in Requests : requests'[q].step \in Steps
    <3>1. CASE Answer(r)
      BY <2>1, <2>2, <3>1, AnswerTyped
    <3>2. CASE Goto(r, "issue")
      BY <1>1, <1>2, <2>1, <2>2, <3>2, GotoTyped
    <3>3. QED
      BY <2>1, <3>1, <3>2
  <2>4. QED
    BY <2>1, <2>2, <2>3 DEF TypeInv, TypeOK
<1>5. CASE IssueProof(r)
  <2> DEFINE proof ==
        [by |-> r, ceremony |-> requests[r].ceremony, credential |-> c,
         counter |-> requests[r].counter, purpose |-> requests[r].purpose,
         authenticatedAt |-> requests[r].at]
  <2>1. /\ proofs' = proofs \cup {proof}
        /\ UNCHANGED <<ceremonies, credentials, owner, sessions, reenrolments, now>>
        /\ Answer(r) \/ Goto(r, "authenticate")
    BY <1>5 DEF IssueProof
  <2>2. proof \in Proofs
    BY <1>1 DEF Proofs, FinishRequests
  <2>3. RequestsTyped' /\ \A q \in Requests : requests'[q].step \in Steps
    BY <1>1, <1>2, <2>1, AnswerTyped, GotoTyped
  <2> HIDE DEF proof
  <2>4. QED
    BY <2>1, <2>2, <2>3 DEF TypeInv, TypeOK
<1>6. QED
  BY <1>3, <1>4, <1>5

(* Signing in.                                                             *)
LEMMA SignInTypes ==
  ASSUME TypeInv, NEW r \in Requests,
         Authenticate(r) \/ RedeemProof(r) \/ WriteSession(r)
  PROVE  TypeInv'
<1>1. /\ requests[r].step \in FinishSteps /\ requests[r] \in FinishRequests
      /\ requests[r].ceremony \in DOMAIN ceremonies /\ requests[r].at <= now
      /\ requests[r].purpose \in Authentications
  <2>1. requests[r].step \in {"authenticate", "redeem", "write"}
    BY DEF Authenticate, RedeemProof, WriteSession, At
  <2>2. Past(r) /\ ~At(r, "register") /\ ~At(r, "initialize")
    BY <2>1 DEF Past, At, FinishSteps, Steps
  <2>3. QED
    BY <2>2, RequestFields DEF TypeInv, RequestsTyped, Past
<1>2. {"redeem", "write"} \subseteq
        FinishSteps \ {"consume", "register", "initialize"}
  BY DEF FinishSteps, Steps
<1>3. CASE Authenticate(r)
  <2> DEFINE request == [requests[r] EXCEPT !.step = "redeem", !.at = now]
  <2>1. UNCHANGED <<tables, owner, sessions, reenrolments, now>>
    BY <1>3 DEF Authenticate
  <2>2. RequestsTyped' /\ \A q \in Requests : requests'[q].step \in Steps
    <3>1. CASE Answer(r)
      BY <2>1, <3>1, AnswerTyped DEF tables
    <3>2. CASE requests' = [requests EXCEPT ![r] = request]
      <4>1. now \in Nat
        BY DEF TypeInv, TypeOK
      <4>2. /\ request \in FinishRequests /\ request.step = "redeem"
            /\ request.ceremony = requests[r].ceremony /\ request.at = now
            /\ request.purpose = requests[r].purpose
        BY <1>1, <1>2, <4>1 DEF FinishRequests
      <4> HIDE DEF request
      <4>3. request.at <= now
        BY <4>1, <4>2
      <4>4. QED
        BY <1>1, <2>1, <3>2, <4>2, <4>3, ReplaceRequest DEF tables
    <3>3. QED
      BY <1>3, <3>1, <3>2 DEF Authenticate
  <2>3. QED
    BY <2>1, <2>2 DEF TypeInv, TypeOK, tables
<1>4. CASE RedeemProof(r)
  <2>1. /\ proofs' \subseteq proofs
        /\ UNCHANGED <<ceremonies, credentials, owner, sessions, reenrolments, now>>
        /\ Answer(r) \/ Goto(r, "write")
    BY <1>4 DEF RedeemProof
  <2>2. RequestsTyped' /\ \A q \in Requests : requests'[q].step \in Steps
    BY <1>1, <1>2, <2>1, AnswerTyped, GotoTyped
  <2>3. QED
    BY <2>1, <2>2 DEF TypeInv, TypeOK
<1>5. CASE WriteSession(r)
  <2> DEFINE session ==
        [by |-> r, ceremony |-> requests[r].ceremony,
         credential |-> requests[r].credential,
         counter |-> requests[r].counter, authenticatedAt |-> requests[r].at]
  <2>1. /\ sessions' = sessions \cup {session} /\ Answer(r)
        /\ UNCHANGED <<tables, owner, reenrolments, now>>
    BY <1>5 DEF WriteSession
  <2>2. session \in Sessions
    BY <1>1 DEF Sessions, FinishRequests
  <2>3. RequestsTyped' /\ \A q \in Requests : requests'[q].step \in Steps
    BY <2>1, AnswerTyped DEF tables
  <2> HIDE DEF session
  <2>4. QED
    BY <2>1, <2>2, <2>3 DEF TypeInv, TypeOK, tables
<1>6. QED
  BY <1>3, <1>4, <1>5

(* Every step keeps the types.                                             *)
LEMMA NextTypes == TypeInv /\ [Next]_vars => TypeInv'
<1>1. SUFFICES ASSUME TypeInv, [Next]_vars PROVE TypeInv'
  OBVIOUS
<1>2. ASSUME NEW r \in Requests, Start(r) PROVE TypeInv'
  BY <1>1, <1>2, StartTypes
<1>3. ASSUME NEW r \in Requests, NEW purpose \in Offered, NEW id \in CeremonyIds,
             NEW c \in CredentialIds, NEW counter \in Counters,
             Finish(r, purpose, id, c, counter)
      PROVE  TypeInv'
  BY <1>1, <1>3, FinishTypes
<1>4. ASSUME NEW r \in Requests, Step(r) PROVE TypeInv'
  BY <1>1, <1>4, EnrolTypes, VerifyTypes, SignInTypes DEF Step
<1>5. ASSUME NEW r \in Requests, Abandon(r) PROVE TypeInv'
  <2>1. Answer(r) /\ UNCHANGED <<tables, owner, sessions, reenrolments, now>>
    BY <1>5 DEF Abandon
  <2>2. RequestsTyped' /\ \A q \in Requests : requests'[q].step \in Steps
    BY <1>1, <2>1, AnswerTyped DEF tables
  <2>3. QED
    BY <1>1, <2>1, <2>2 DEF TypeInv, TypeOK, tables
<1>6. CASE Tick
  <2>1. /\ UNCHANGED <<tables, owner, sessions, requests, reenrolments>>
        /\ now' = now + 1 /\ now \in Nat
    BY <1>1, <1>6 DEF Tick, TypeInv, TypeOK
  <2>2. RequestsTyped'
    <3>1. \A r \in Requests : requests[r].step \in FinishSteps =>
            requests[r].at \in Nat /\ requests[r].at <= now
      BY <1>1, RequestFields DEF TypeInv, RequestsTyped, FinishRequests
    <3>2. \A r \in Requests : requests[r].step \in FinishSteps => requests[r].at <= now'
      BY <2>1, <3>1
    <3>3. QED
      BY <1>1, <2>1, <3>2 DEF TypeInv, RequestsTyped, At, Past, tables
  <2>3. QED
    BY <1>1, <2>1, <2>2 DEF TypeInv, TypeOK, tables
<1>7. CASE UNCHANGED vars
  BY <1>1, <1>7 DEF TypeInv, TypeOK, RequestsTyped, At, Past, vars, tables
<1>8. QED
  BY <1>1, <1>2, <1>3, <1>4, <1>5, <1>6, <1>7 DEF Next

(* The tables and the requests keep their types.                           *)
LEMMA TypesHold == Spec => []TypeInv
BY InitTypes, NextTypes, PTL DEF Spec
-----------------------------------------------------------------------------
(* Counters.                                                               *)

\* The request has written its authenticator's count to the credential.
Updated(r) == requests[r].step \in {"issue", "authenticate", "redeem", "write"}

SameCount(x, y) ==
  x.credential = y.credential /\ x.counter = y.counter /\ x.counter > 0

(* The inductive invariant behind ClonesAreNoticed: whoever has written a  *)
(* count, a request under way or a session, is the only one to have        *)
(* written it, and the credential has reached it.  The next count to be    *)
(* written was verified against the one the statement compares with.       *)
CountInv ==
  /\ \A r \in Requests : At(r, "update") =>
       /\ requests[r].credential \in DOMAIN credentials
       /\ CounterVerifies(requests[r].expected, requests[r].counter)
  /\ \A r \in Requests : Updated(r) =>
       /\ requests[r].credential \in DOMAIN credentials
       /\ requests[r].counter <= credentials[requests[r].credential]
  /\ \A r, q \in Requests :
       Updated(r) /\ Updated(q) /\ SameCount(requests[r], requests[q]) => r = q
  /\ \A s \in sessions :
       s.credential \in DOMAIN credentials /\ s.counter <= credentials[s.credential]
  /\ \A s \in sessions, r \in Requests :
       ~ (Updated(r) /\ SameCount(s, requests[r]))
  /\ ClonesAreNoticed

\* A step that writes neither a count nor a session.
CountsKept ==
  /\ UNCHANGED sessions
  /\ \A c \in DOMAIN credentials :
       c \in DOMAIN credentials' /\ credentials'[c] = credentials[c]
  /\ \A q \in Requests : requests'[q].step = "update" =>
       /\ requests'[q].credential \in DOMAIN credentials'
       /\ CounterVerifies(requests'[q].expected, requests'[q].counter)
  /\ \A q \in Requests :
       requests'[q].step \in {"issue", "authenticate", "redeem", "write"} =>
         /\ Updated(q)
         /\ requests'[q].credential = requests[q].credential
         /\ requests'[q].counter = requests[q].counter

LEMMA InitCounts == Init => CountInv
BY DEF Init, CountInv, At, Updated, NoRequest, ClonesAreNoticed

(* Such a step keeps the invariant.                                        *)
LEMMA KeptCounts ==
  ASSUME CountInv, CountsKept
  PROVE  CountInv'
<1>1. \A r \in Requests : At(r, "update")' =>
        /\ requests'[r].credential \in DOMAIN credentials'
        /\ CounterVerifies(requests'[r].expected, requests'[r].counter)
  BY DEF CountsKept, At
<1>2. \A r \in Requests : Updated(r)' =>
        /\ Updated(r)
        /\ requests'[r].credential = requests[r].credential
        /\ requests'[r].counter = requests[r].counter
  BY DEF CountsKept, Updated
<1>3. \A r \in Requests : Updated(r)' =>
        /\ requests'[r].credential \in DOMAIN credentials'
        /\ requests'[r].counter <= credentials'[requests'[r].credential]
  BY <1>2 DEF CountsKept, CountInv
<1>4. \A r, q \in Requests :
        Updated(r)' /\ Updated(q)' /\ SameCount(requests'[r], requests'[q]) => r = q
  BY <1>2 DEF CountInv, SameCount
<1>5. \A s \in sessions' :
        s.credential \in DOMAIN credentials' /\ s.counter <= credentials'[s.credential]
  BY DEF CountsKept, CountInv
<1>6. \A s \in sessions', r \in Requests :
        ~ (Updated(r)' /\ SameCount(s, requests'[r]))
  BY <1>2 DEF CountsKept, CountInv, SameCount
<1>7. ClonesAreNoticed'
  BY DEF CountsKept, CountInv, ClonesAreNoticed
<1>8. QED
  BY <1>1, <1>3, <1>4, <1>5, <1>6, <1>7 DEF CountInv

(* The statement that writes a count writes one no one has reached.        *)
LEMMA UpdateCounts ==
  ASSUME TypeInv, CountInv, NEW r \in Requests, UpdateCounter(r), ~ Answer(r)
  PROVE  CountInv'
<1> DEFINE c == requests[r].credential
           n == requests[r].counter
<1>1. /\ At(r, "update")
      /\ CounterIsCurrent(c, requests[r].expected, n)
      /\ credentials' = [credentials EXCEPT ![c] = n]
      /\ Goto(r, "issue") /\ UNCHANGED sessions
  BY DEF UpdateCounter
<1>2. requests[r] \in FinishRequests /\ n \in Nat
  BY <1>1, RequestFields DEF TypeInv, At, FinishSteps, Steps, FinishRequests
<1>3. /\ requests'[r].step = "issue" /\ requests'[r].credential = c
      /\ requests'[r].counter = n
      /\ \A q \in Requests \ {r} : requests'[q] = requests[q]
  BY <1>1, GotoRequest DEF TypeInv, At, FinishSteps, Steps
<1>4. c \in DOMAIN credentials => n >= credentials[c] /\ (n > 0 => n > credentials[c])
  <2>1. CounterVerifies(credentials[c], n)
    BY <1>1 DEF CountInv, CounterIsCurrent
  <2>2. ASSUME c \in DOMAIN credentials
        PROVE  n >= credentials[c] /\ (n > 0 => n > credentials[c])
    <3>1. credentials[c] \in Nat
      BY <2>2 DEF TypeInv
    <3>2. QED
      BY <1>2, <2>1, <3>1 DEF CounterVerifies
  <2>3. QED
    BY <2>2
<1>5. c \in DOMAIN credentials
  BY <1>1 DEF CountInv
<1>6. /\ DOMAIN credentials' = DOMAIN credentials /\ credentials'[c] = n
      /\ \A d \in DOMAIN credentials : credentials'[d] >= credentials[d]
  <2>1. \A d \in DOMAIN credentials : credentials[d] \in Nat
    BY DEF TypeInv
  <2>2. QED
    BY <1>1, <1>2, <1>4, <1>5, <2>1 DEF TypeInv
<1>7. \A q \in Requests \ {r} : At(q, "update")' <=> At(q, "update")
  BY <1>3 DEF At
<1>8. \A q \in Requests \ {r} : Updated(q)' <=> Updated(q)
  BY <1>3 DEF Updated
<1>9. \A q \in Requests : Updated(q) => requests[q].counter \in Nat
  BY RequestFields DEF TypeInv, Updated, FinishSteps, Steps, FinishRequests
<1>10. \A s \in sessions : s.counter \in Nat
  BY DEF TypeInv, TypeOK, Sessions
<1>11. \A d \in DOMAIN credentials' : credentials'[d] \in Nat /\ credentials[d] \in Nat
  BY <1>1, <1>2, <1>6 DEF TypeInv
<1>12. \A q \in Requests : At(q, "update")' =>
         /\ requests'[q].credential \in DOMAIN credentials'
         /\ CounterVerifies(requests'[q].expected, requests'[q].counter)
  BY <1>3, <1>6, <1>7 DEF CountInv, At
<1>13. \A q \in Requests : Updated(q)' =>
         /\ requests'[q].credential \in DOMAIN credentials'
         /\ requests'[q].counter <= credentials'[requests'[q].credential]
  <2>1. SUFFICES ASSUME NEW q \in Requests \ {r}, Updated(q)
        PROVE  /\ requests[q].credential \in DOMAIN credentials'
               /\ requests[q].counter <= credentials'[requests[q].credential]
    BY <1>2, <1>3, <1>5, <1>6, <1>8
  <2>2. QED
    BY <1>6, <1>9, <1>11, <2>1 DEF CountInv
<1>14. \A q \in Requests \ {r} : Updated(q) => ~ SameCount(requests[r], requests[q])
  BY <1>4, <1>5, <1>9, <1>11, <1>6 DEF CountInv, SameCount
<1>15. \A p, q \in Requests :
         Updated(p)' /\ Updated(q)' /\ SameCount(requests'[p], requests'[q]) => p = q
  <2>1. \A q \in Requests \ {r} : Updated(q)' =>
          /\ ~ SameCount(requests'[r], requests'[q])
          /\ ~ SameCount(requests'[q], requests'[r])
    BY <1>3, <1>8, <1>14 DEF SameCount
  <2>2. QED
    BY <1>3, <1>8, <2>1 DEF CountInv
<1>16. \A s \in sessions' :
         s.credential \in DOMAIN credentials' /\ s.counter <= credentials'[s.credential]
  BY <1>1, <1>6, <1>10, <1>11 DEF CountInv
<1>17. \A s \in sessions', q \in Requests :
         ~ (Updated(q)' /\ SameCount(s, requests'[q]))
  <2>1. \A s \in sessions : ~ SameCount(s, requests[r])
    BY <1>4, <1>5, <1>6, <1>10, <1>11 DEF CountInv, SameCount
  <2>2. \A s \in sessions : ~ SameCount(s, requests'[r])
    BY <1>3, <2>1 DEF SameCount
  <2>3. QED
    BY <1>1, <1>3, <1>8, <2>2 DEF CountInv
<1>18. ClonesAreNoticed'
  BY <1>1 DEF CountInv, ClonesAreNoticed
<1>19. QED
  BY <1>12, <1>13, <1>15, <1>16, <1>17, <1>18 DEF CountInv

(* A session carries the count its request has written.                    *)
LEMMA SessionCounts ==
  ASSUME TypeInv, CountInv, NEW r \in Requests, WriteSession(r)
  PROVE  CountInv'
<1> DEFINE session ==
      [by |-> r, ceremony |-> requests[r].ceremony,
       credential |-> requests[r].credential,
       counter |-> requests[r].counter, authenticatedAt |-> requests[r].at]
<1>1. /\ At(r, "write") /\ sessions' = sessions \cup {session}
      /\ Answer(r) /\ UNCHANGED <<credentials, now>>
  BY DEF WriteSession, tables
<1>2. /\ requests'[r].step = "idle"
      /\ \A q \in Requests \ {r} : requests'[q] = requests[q]
  BY <1>1, AnswerRequest DEF TypeInv
<1>3. /\ \A q \in Requests : At(q, "update")' => At(q, "update") /\ q # r
      /\ \A q \in Requests : Updated(q)' => Updated(q) /\ q # r
  BY <1>2 DEF At, Updated
<1>4. Updated(r) /\ session.credential = requests[r].credential
                 /\ session.counter = requests[r].counter
  BY <1>1 DEF Updated, At
<1> HIDE DEF session
<1>5. \A q \in Requests : At(q, "update")' =>
        /\ requests'[q].credential \in DOMAIN credentials'
        /\ CounterVerifies(requests'[q].expected, requests'[q].counter)
  BY <1>1, <1>2, <1>3 DEF CountInv
<1>6. \A q \in Requests : Updated(q)' =>
        /\ requests'[q].credential \in DOMAIN credentials'
        /\ requests'[q].counter <= credentials'[requests'[q].credential]
  BY <1>1, <1>2, <1>3 DEF CountInv
<1>7. \A p, q \in Requests :
        Updated(p)' /\ Updated(q)' /\ SameCount(requests'[p], requests'[q]) => p = q
  BY <1>2, <1>3 DEF CountInv
<1>8. \A s \in sessions' :
        s.credential \in DOMAIN credentials' /\ s.counter <= credentials'[s.credential]
  BY <1>1, <1>4 DEF CountInv
<1>9. \A s \in sessions', q \in Requests :
        ~ (Updated(q)' /\ SameCount(s, requests'[q]))
  <2>1. SUFFICES ASSUME NEW q \in Requests, Updated(q)', SameCount(session, requests'[q])
        PROVE  FALSE
    BY <1>1, <1>2, <1>3 DEF CountInv
  <2>2. q # r /\ Updated(q) /\ requests'[q] = requests[q]
    BY <1>2, <1>3, <2>1
  <2>3. SameCount(requests[r], requests[q])
    BY <1>4, <2>1, <2>2 DEF SameCount
  <2>4. QED
    BY <1>4, <2>2, <2>3 DEF CountInv
<1>10. ClonesAreNoticed'
  <2>1. SUFFICES ASSUME NEW s \in sessions, SameCount(s, session)
        PROVE  FALSE
    BY <1>1 DEF CountInv, ClonesAreNoticed, SameCount
  <2>2. SameCount(s, requests[r])
    BY <1>4, <2>1 DEF SameCount
  <2>3. QED
    BY <1>4, <2>2 DEF CountInv
<1>11. QED
  BY <1>5, <1>6, <1>7, <1>8, <1>9, <1>10 DEF CountInv

(* Every other step keeps the counts.                                      *)
LEMMA OtherCounts ==
  ASSUME TypeInv, CountInv, [Next]_vars,
         ~ \E r \in Requests : WriteSession(r),
         ~ \E r \in Requests : UpdateCounter(r) /\ ~ Answer(r)
  PROVE  CountsKept
<1>1. ASSUME NEW r \in Requests,
             \A q \in Requests \ {r} : requests'[q] = requests[q],
             UNCHANGED <<credentials, sessions>>,
             \/ requests'[r].step \notin {"update", "issue", "authenticate", "redeem", "write"}
             \/ /\ Updated(r) /\ requests'[r].step # "update"
                /\ requests'[r].credential = requests[r].credential
                /\ requests'[r].counter = requests[r].counter
      PROVE  CountsKept
  BY <1>1 DEF CountsKept, CountInv, At, Updated
<1>2. ASSUME NEW r \in Requests, Answer(r), UNCHANGED <<credentials, sessions>>
      PROVE  CountsKept
  <2>1. requests'[r].step = "idle" /\ \A q \in Requests \ {r} : requests'[q] = requests[q]
    BY <1>2, AnswerRequest DEF TypeInv
  <2>2. QED
    BY <1>1, <1>2, <2>1
<1>3. ASSUME NEW r \in Requests, NEW step, Goto(r, step), requests[r].step \in FinishSteps,
             UNCHANGED <<credentials, sessions>>,
             \/ step \notin {"update", "issue", "authenticate", "redeem", "write"}
             \/ step # "update" /\ Updated(r)
      PROVE  CountsKept
  <2>1. /\ requests'[r].step = step
        /\ requests'[r].credential = requests[r].credential
        /\ requests'[r].counter = requests[r].counter
        /\ \A q \in Requests \ {r} : requests'[q] = requests[q]
    BY <1>3, GotoRequest DEF TypeInv
  <2>2. QED
    BY <1>1, <1>3, <2>1
<1>4. ASSUME NEW r \in Requests, Start(r) PROVE CountsKept
  <2>1. UNCHANGED <<credentials, sessions>>
    BY <1>4 DEF Start, StartBootstrap, StartAuthentication, StartRegistration,
                CreateCeremony, tables
  <2>2. Answer(r) \/ \E purpose \in Purposes : Begin(r, StartRequest(purpose))
    BY <1>4 DEF Start, StartBootstrap, StartAuthentication, StartRegistration,
                CreateCeremony, Purposes, Registrations
  <2>3. ASSUME NEW purpose \in Purposes, Begin(r, StartRequest(purpose))
        PROVE  CountsKept
    <3>1. requests'[r].step = "create" /\ \A q \in Requests \ {r} : requests'[q] = requests[q]
      <4>1. StartRequest(purpose).step = "create"
        BY DEF StartRequest
      <4>2. QED
        BY <2>3, <4>1, BeginRequest DEF TypeInv
    <3>2. QED
      BY <1>1, <2>1, <3>1
  <2>4. QED
    BY <1>2, <2>1, <2>2, <2>3
<1>5. ASSUME NEW r \in Requests, NEW purpose \in Offered, NEW id \in CeremonyIds,
             NEW c \in CredentialIds, NEW counter \in Counters,
             Finish(r, purpose, id, c, counter)
      PROVE  CountsKept
  <2>1. requests'[r].step = "consume" /\ \A q \in Requests \ {r} : requests'[q] = requests[q]
    <3>1. FinishRequest(purpose, id, c, counter).step = "consume"
      BY DEF FinishRequest
    <3>2. Begin(r, FinishRequest(purpose, id, c, counter))
      BY <1>5 DEF Finish
    <3>3. QED
      BY <3>1, <3>2, BeginRequest DEF TypeInv
  <2>2. UNCHANGED <<credentials, sessions>>
    BY <1>5 DEF Finish, tables
  <2>3. QED
    BY <1>1, <2>1, <2>2
<1>6. ASSUME NEW r \in Requests, ConsumeCeremony(r) PROVE CountsKept
  <2>1. At(r, "consume") /\ UNCHANGED <<credentials, sessions>>
    BY <1>6 DEF ConsumeCeremony
  <2>2. Answer(r) \/ Goto(r, "register") \/ Goto(r, "read")
    BY <1>6 DEF ConsumeCeremony, NextStatement
  <2>3. requests[r].step \in FinishSteps
    BY <2>1 DEF At, FinishSteps, Steps
  <2>4. QED
    BY <1>2, <1>3, <2>1, <2>2, <2>3
<1>7. ASSUME NEW r \in Requests, RegisterCredential(r) PROVE CountsKept
  <2> DEFINE c == requests[r].credential
  <2>1. /\ At(r, "register") /\ UNCHANGED sessions
        /\ Answer(r) \/ Goto(r, "initialize")
        /\ \/ UNCHANGED credentials
           \/ /\ c \notin DOMAIN credentials
              /\ credentials' = With(credentials, c, requests[r].counter)
    BY <1>7 DEF RegisterCredential, Enrollable
  <2>2. /\ requests'[r].step \in {"idle", "initialize"}
        /\ \A q \in Requests \ {r} : requests'[q] = requests[q]
    <3>1. requests[r].step \in FinishSteps
      BY <2>1 DEF At, FinishSteps, Steps
    <3>2. QED
      BY <2>1, <3>1, AnswerRequest, GotoRequest DEF TypeInv
  <2>3. \A d \in DOMAIN credentials :
          d \in DOMAIN credentials' /\ credentials'[d] = credentials[d]
    <3>1. CASE UNCHANGED credentials
      BY <3>1
    <3>2. CASE c \notin DOMAIN credentials
               /\ credentials' = With(credentials, c, requests[r].counter)
      BY <3>2 DEF With
    <3>3. QED
      BY <2>1, <3>1, <3>2
  <2>4. QED
    BY <2>1, <2>2, <2>3 DEF CountsKept, CountInv, At, Updated
<1>8. ASSUME NEW r \in Requests, InitializeIdentity(r) \/ Abandon(r) PROVE CountsKept
  BY <1>2, <1>8 DEF InitializeIdentity, Abandon, tables
<1>9. ASSUME NEW r \in Requests, ReadCredential(r) PROVE CountsKept
  <2> DEFINE c == requests[r].credential
  <2>1. /\ At(r, "read") /\ UNCHANGED <<credentials, sessions>>
        /\ \/ Answer(r)
           \/ /\ c \in DOMAIN credentials
              /\ CounterVerifies(credentials[c], requests[r].counter)
              /\ requests' = [requests EXCEPT
                   ![r] = [requests[r] EXCEPT !.step = "update", !.expected = credentials[c]]]
    BY <1>9 DEF ReadCredential, tables
  <2>2. CASE Answer(r)
    BY <1>2, <2>1, <2>2
  <2>3. CASE ~ Answer(r)
    <3>1. requests[r] \in FinishRequests
      BY <2>1, RequestFields DEF At, FinishSteps, Steps, TypeInv
    <3>2. /\ requests'[r].step = "update" /\ requests'[r].credential = c
          /\ requests'[r].counter = requests[r].counter
          /\ requests'[r].expected = credentials[c]
          /\ \A q \in Requests \ {r} : requests'[q] = requests[q]
      <4> DEFINE request == [requests[r] EXCEPT !.step = "update",
                                                !.expected = credentials[c]]
      <4>1. /\ request.step = "update" /\ request.credential = c
            /\ request.counter = requests[r].counter
            /\ request.expected = credentials[c]
        BY <3>1 DEF FinishRequests
      <4> HIDE DEF request
      <4>2. requests' = [requests EXCEPT ![r] = request]
        BY <2>1, <2>3 DEF request
      <4>3. QED
        BY <4>1, <4>2 DEF TypeInv, RequestsTyped
    <3>3. QED
      BY <2>1, <2>3, <3>2 DEF CountsKept, CountInv, At, Updated
  <2>4. QED
    BY <2>2, <2>3
<1>10. ASSUME NEW r \in Requests, UpdateCounter(r) PROVE CountsKept
  <2>1. Answer(r) /\ requests[r].step \in FinishSteps /\ UNCHANGED sessions
    BY <1>10 DEF UpdateCounter, At, FinishSteps, Steps
  <2>2. ~ Goto(r, "issue")
    <3>1. requests'[r].step # "issue"
      BY <2>1, AnswerRequest DEF TypeInv
    <3>2. QED
      BY <2>1, <3>1, GotoRequest DEF TypeInv
  <2>3. UNCHANGED credentials
    BY <1>10, <2>2 DEF UpdateCounter
  <2>4. QED
    BY <1>2, <2>1, <2>3
<1>11. ASSUME NEW r \in Requests, IssueProof(r) PROVE CountsKept
  <2>1. /\ requests[r].step \in FinishSteps /\ Updated(r)
        /\ UNCHANGED <<credentials, sessions>>
        /\ Answer(r) \/ Goto(r, "authenticate")
    BY <1>11 DEF IssueProof, At, FinishSteps, Steps, Updated
  <2>2. QED
    BY <1>2, <1>3, <2>1
<1>12. ASSUME NEW r \in Requests, Authenticate(r) PROVE CountsKept
  <2>1. /\ requests[r].step \in FinishSteps /\ Updated(r)
        /\ UNCHANGED <<credentials, sessions>>
        /\ \/ Answer(r)
           \/ requests' = [requests EXCEPT
                ![r] = [requests[r] EXCEPT !.step = "redeem", !.at = now]]
    BY <1>12 DEF Authenticate, At, FinishSteps, Steps, Updated, tables
  <2>2. CASE Answer(r)
    BY <1>2, <2>1, <2>2
  <2>3. CASE ~ Answer(r)
    <3> DEFINE request == [requests[r] EXCEPT !.step = "redeem", !.at = now]
    <3>1. requests[r] \in FinishRequests
      BY <2>1, RequestFields DEF TypeInv
    <3>2. /\ request.step = "redeem" /\ request.credential = requests[r].credential
          /\ request.counter = requests[r].counter
      BY <3>1 DEF FinishRequests
    <3>3. requests' = [requests EXCEPT ![r] = request]
      BY <2>1, <2>3
    <3> HIDE DEF request
    <3>4. /\ requests'[r] = request
          /\ \A q \in Requests \ {r} : requests'[q] = requests[q]
      BY <3>3 DEF TypeInv, RequestsTyped
    <3>5. QED
      BY <1>1, <2>1, <3>2, <3>4
  <2>4. QED
    BY <2>2, <2>3
<1>13. ASSUME NEW r \in Requests, RedeemProof(r) PROVE CountsKept
  <2>1. /\ requests[r].step \in FinishSteps /\ Updated(r)
        /\ UNCHANGED <<credentials, sessions>>
        /\ Answer(r) \/ Goto(r, "write")
    BY <1>13 DEF RedeemProof, At, FinishSteps, Steps, Updated
  <2>2. QED
    BY <1>2, <1>3, <2>1
<1>14. CASE Tick \/ UNCHANGED vars
  BY <1>14 DEF Tick, vars, tables, CountsKept, CountInv, At, Updated
<1>15. QED
  BY <1>4, <1>5, <1>6, <1>7, <1>8, <1>9, <1>10, <1>11, <1>12, <1>13, <1>14
     DEF Next, Step

(* Every step keeps the counts apart.                                      *)
LEMMA NextCounts == TypeInv /\ CountInv /\ [Next]_vars => CountInv'
BY UpdateCounts, SessionCounts, OtherCounts, KeptCounts

(* An authenticator that counts and its clone never both sign in with the  *)
(* same count, whatever statements of their requests interleave            *)
(* (updateWebAuthnCounter of postgres.ts, verifyAuthentication).           *)
THEOREM ClonesNoticed == Spec => []ClonesAreNoticed
<1>1. CountInv => ClonesAreNoticed
  BY DEF CountInv
<1>2. QED
  BY <1>1, TypesHold, InitCounts, NextCounts, PTL DEF Spec
-----------------------------------------------------------------------------
(* Ceremonies.                                                             *)

Uses(x, r) == Past(r) /\ requests[r].ceremony = x.ceremony
LastTime(x) == ceremonies[x.ceremony].createdAt + CeremonyLifetimeMs

(* The inductive invariant behind OneSessionPerCeremony.  A ceremony that  *)
(* was consumed is in the hands of one request, which may hold its proof   *)
(* between issuing and redeeming it, or it has become a session: never two *)
(* of these.  The clock a request read came before its ceremony's end, and *)
(* the one it reads to sign in before the end of its proof.                *)
CeremonyInv ==
  /\ \A r \in Requests : Past(r) => ceremonies[requests[r].ceremony].consumed
  /\ \A r \in Requests : Past(r) /\ requests[r].step \notin {"redeem", "write"} =>
       requests[r].at <= LastTime(requests[r])
  /\ \A r \in Requests : requests[r].step = "write" =>
       requests[r].at <= LastTime(requests[r]) + ProofLifetimeMs
  /\ \A r, q \in Requests : Past(r) /\ Uses(requests[r], q) => r = q
  /\ \A p \in proofs :
       /\ p.ceremony \in DOMAIN ceremonies /\ ceremonies[p.ceremony].consumed
       /\ p.authenticatedAt <= LastTime(p)
       /\ \A r \in Requests :
            Uses(p, r) => p.by = r /\ requests[r].step \in {"authenticate", "redeem"}
  /\ \A s \in sessions :
       /\ s.ceremony \in DOMAIN ceremonies /\ ceremonies[s.ceremony].consumed
       /\ \A r \in Requests : ~ Uses(s, r)
       /\ \A p \in proofs : p.ceremony # s.ceremony
  /\ OneSessionPerCeremony

\* The ceremonies stay as they were answered.
CeremoniesStay ==
  \A id \in DOMAIN ceremonies :
    /\ id \in DOMAIN ceremonies'
    /\ ceremonies'[id].createdAt = ceremonies[id].createdAt
    /\ ceremonies[id].consumed => ceremonies'[id].consumed

\* A request that goes on, or stays where it is, with nothing new in hand.
StepKept(q) ==
  requests'[q].step \in FinishSteps \ {"consume"} =>
    /\ Past(q) /\ requests'[q].ceremony = requests[q].ceremony
    /\ requests'[q].step = "write" =>
         requests[q].step = "write" /\ requests'[q].at = requests[q].at
    /\ requests[q].step \in {"authenticate", "redeem"} =>
         requests'[q].step \in {"authenticate", "redeem"}
    /\ requests'[q].step \notin {"redeem", "write"} =>
         requests[q].step \notin {"redeem", "write"} /\ requests'[q].at = requests[q].at

\* A step that consumes no ceremony and issues, redeems and uses no proof.
CeremoniesKept ==
  /\ UNCHANGED sessions /\ proofs' \subseteq proofs
  /\ CeremoniesStay /\ \A q \in Requests : StepKept(q)

LEMMA InitCeremonies == Init => CeremonyInv
BY DEF Init, CeremonyInv, Past, Uses, NoRequest, FinishSteps, OneSessionPerCeremony

(* Such a step keeps the invariant.                                        *)
LEMMA KeptCeremonies ==
  ASSUME TypeInv, CeremonyInv, CeremoniesKept
  PROVE  CeremonyInv'
<1>1. \A r \in Requests : Past(r)' =>
        /\ Past(r) /\ requests'[r].ceremony = requests[r].ceremony
        /\ requests[r].ceremony \in DOMAIN ceremonies
  BY DEF CeremoniesKept, StepKept, Past, TypeInv, RequestsTyped
<1>2. \A r \in Requests : Past(r)' =>
        /\ ceremonies'[requests'[r].ceremony].consumed
        /\ LastTime(requests[r])' = LastTime(requests[r])
  BY <1>1 DEF CeremoniesKept, CeremoniesStay, CeremonyInv, LastTime
<1>3. \A r \in Requests : Past(r)' /\ requests'[r].step \notin {"redeem", "write"} =>
        requests'[r].at <= LastTime(requests[r])'
  BY <1>1, <1>2 DEF CeremoniesKept, StepKept, CeremonyInv, Past
<1>4. \A r \in Requests : requests'[r].step = "write" =>
        requests'[r].at <= LastTime(requests[r])' + ProofLifetimeMs
  BY <1>1, <1>2 DEF CeremoniesKept, StepKept, CeremonyInv, Past, FinishSteps, Steps
<1>5. \A r, q \in Requests : Past(r)' /\ Uses(requests[r], q)' => r = q
  BY <1>1 DEF CeremonyInv, Uses
<1>6. ASSUME NEW p \in proofs'
      PROVE  /\ p.ceremony \in DOMAIN ceremonies' /\ ceremonies'[p.ceremony].consumed
             /\ p.authenticatedAt <= LastTime(p)'
             /\ \A r \in Requests : Uses(p, r)' =>
                  p.by = r /\ requests'[r].step \in {"authenticate", "redeem"}
  <2>1. p \in proofs
    BY DEF CeremoniesKept
  <2>2. /\ p.ceremony \in DOMAIN ceremonies' /\ ceremonies'[p.ceremony].consumed
        /\ p.authenticatedAt <= LastTime(p)'
    BY <2>1 DEF CeremonyInv, CeremoniesKept, CeremoniesStay, LastTime
  <2>3. ASSUME NEW r \in Requests, Uses(p, r)'
        PROVE  p.by = r /\ requests'[r].step \in {"authenticate", "redeem"}
    <3>1. Uses(p, r) /\ Past(r)'
      BY <1>1, <2>3 DEF Uses
    <3>2. p.by = r /\ requests[r].step \in {"authenticate", "redeem"}
      BY <2>1, <3>1 DEF CeremonyInv
    <3>3. QED
      BY <3>1, <3>2 DEF CeremoniesKept, StepKept, Past
  <2>4. QED
    BY <2>2, <2>3
<1>7. ASSUME NEW s \in sessions'
      PROVE  /\ s.ceremony \in DOMAIN ceremonies' /\ ceremonies'[s.ceremony].consumed
             /\ \A r \in Requests : ~ Uses(s, r)'
             /\ \A p \in proofs' : p.ceremony # s.ceremony
  <2>1. s \in sessions
    BY DEF CeremoniesKept
  <2>2. \A r \in Requests : ~ Uses(s, r)'
    BY <1>1, <2>1 DEF Uses, CeremonyInv
  <2>3. QED
    BY <2>1, <2>2 DEF CeremonyInv, CeremoniesKept, CeremoniesStay
<1>8. OneSessionPerCeremony'
  BY DEF CeremonyInv, OneSessionPerCeremony, CeremoniesKept, CeremoniesStay
<1>9. QED
  BY <1>2, <1>3, <1>4, <1>5, <1>6, <1>7, <1>8 DEF CeremonyInv

(* The one statement that consumes a ceremony finds it in no one's hands.  *)
LEMMA ConsumeCeremonies ==
  ASSUME TypeInv, CeremonyInv, NEW r \in Requests, ConsumeCeremony(r), ~ Answer(r)
  PROVE  CeremonyInv'
<1> DEFINE id == requests[r].ceremony
           next == NextStatement(requests[r].purpose)
<1>1. /\ At(r, "consume") /\ Goto(r, next)
      /\ ConsumableCeremony(ceremonies[id], requests[r].purpose, requests[r].at)
      /\ ceremonies' = [ceremonies EXCEPT ![id].consumed = TRUE]
      /\ UNCHANGED <<proofs, sessions>>
  BY DEF ConsumeCeremony
<1>2. requests[r].step \in FinishSteps /\ ~ Past(r)
  BY <1>1 DEF At, Past, FinishSteps, Steps
<1>3. id \in DOMAIN ceremonies /\ ceremonies[id] \in Ceremonies
  BY <1>2 DEF TypeInv, RequestsTyped
<1>4. /\ ceremonies'[id].consumed /\ ceremonies'[id].createdAt = ceremonies[id].createdAt
      /\ \A x \in DOMAIN ceremonies \ {id} : ceremonies'[x] = ceremonies[x]
      /\ DOMAIN ceremonies' = DOMAIN ceremonies
  <2>1. ceremonies'[id] = [ceremonies[id] EXCEPT !.consumed = TRUE]
    BY <1>1, <1>3 DEF TypeInv
  <2>2. QED
    BY <1>1, <1>3, <2>1 DEF TypeInv, Ceremonies
<1>5. \A x \in DOMAIN ceremonies : /\ ceremonies'[x].createdAt = ceremonies[x].createdAt
                                   /\ ceremonies[x].consumed => ceremonies'[x].consumed
  BY <1>4
<1>6. /\ requests'[r].step \in {"register", "read"}
      /\ requests'[r].ceremony = id /\ requests'[r].at = requests[r].at
      /\ \A q \in Requests \ {r} : requests'[q] = requests[q]
  BY <1>1, <1>2, GotoRequest DEF TypeInv, NextStatement
<1>7. /\ \A q \in Requests : ~ (Past(q) /\ requests[q].ceremony = id)
      /\ \A p \in proofs : p.ceremony # id
      /\ \A s \in sessions : s.ceremony # id
  BY <1>1 DEF ConsumableCeremony, CeremonyInv
<1>8. /\ Past(r)'
      /\ \A q \in Requests \ {r} : Past(q)' =>
           /\ Past(q) /\ requests[q].ceremony \in DOMAIN ceremonies
           /\ requests[q].ceremony # id
  BY <1>6, <1>7 DEF Past, FinishSteps, Steps, TypeInv, RequestsTyped
<1>9. \A q \in Requests : Past(q)' => ceremonies'[requests'[q].ceremony].consumed
  BY <1>4, <1>6, <1>8 DEF CeremonyInv
<1>10. \A q \in Requests : Past(q)' /\ requests'[q].step \notin {"redeem", "write"} =>
         requests'[q].at <= LastTime(requests[q])'
  <2>1. requests'[r].at <= LastTime(requests[r])'
    BY <1>1, <1>4, <1>6 DEF ConsumableCeremony, LastTime
  <2>2. QED
    BY <1>5, <1>6, <1>8, <2>1 DEF CeremonyInv, LastTime
<1>11. \A q \in Requests : requests'[q].step = "write" =>
         requests'[q].at <= LastTime(requests[q])' + ProofLifetimeMs
  <2>1. \A q \in Requests \ {r} : requests'[q].step = "write" => Past(q)'
    BY DEF Past, FinishSteps, Steps
  <2>2. QED
    BY <1>5, <1>6, <1>8, <2>1 DEF CeremonyInv, LastTime
<1>12. \A p, q \in Requests : Past(p)' /\ Uses(requests[p], q)' => p = q
  BY <1>6, <1>8 DEF CeremonyInv, Uses
<1>13. \A p \in proofs' :
         /\ p.ceremony \in DOMAIN ceremonies' /\ ceremonies'[p.ceremony].consumed
         /\ p.authenticatedAt <= LastTime(p)'
         /\ \A q \in Requests :
              Uses(p, q)' => p.by = q /\ requests'[q].step \in {"authenticate", "redeem"}
  <2>1. SUFFICES ASSUME NEW p \in proofs
        PROVE  /\ p.ceremony \in DOMAIN ceremonies' /\ ceremonies'[p.ceremony].consumed
               /\ p.authenticatedAt <= LastTime(p)'
               /\ \A q \in Requests :
                    Uses(p, q)' => p.by = q /\ requests'[q].step \in {"authenticate", "redeem"}
    BY <1>1
  <2>2. /\ p.ceremony \in DOMAIN ceremonies' /\ ceremonies'[p.ceremony].consumed
        /\ p.authenticatedAt <= LastTime(p)'
    BY <1>4, <1>5 DEF CeremonyInv, LastTime
  <2>3. \A q \in Requests : Uses(p, q)' => q # r /\ Uses(p, q)
    BY <1>6, <1>7, <1>8 DEF Uses
  <2>4. QED
    BY <1>6, <2>2, <2>3 DEF CeremonyInv
<1>14. \A s \in sessions' :
         /\ s.ceremony \in DOMAIN ceremonies' /\ ceremonies'[s.ceremony].consumed
         /\ \A q \in Requests : ~ Uses(s, q)'
         /\ \A p \in proofs' : p.ceremony # s.ceremony
  <2>1. \A s \in sessions, q \in Requests : Uses(s, q)' => q # r /\ Uses(s, q)
    BY <1>6, <1>7, <1>8 DEF Uses
  <2>2. QED
    BY <1>1, <1>4, <1>5, <2>1 DEF CeremonyInv
<1>15. OneSessionPerCeremony'
  BY <1>1, <1>5 DEF CeremonyInv, OneSessionPerCeremony
<1>16. QED
  BY <1>9, <1>10, <1>11, <1>12, <1>13, <1>14, <1>15 DEF CeremonyInv

(* Issuing the proof: the request holds it, or is done.                    *)
LEMMA IssueCeremonies ==
  ASSUME TypeInv, CeremonyInv, NEW r \in Requests, IssueProof(r)
  PROVE  CeremonyInv'
<1>1. PICK proof :
        /\ proof.by = r /\ proof.ceremony = requests[r].ceremony
        /\ proof.authenticatedAt = requests[r].at
        /\ proofs' = proofs \cup {proof}
        /\ At(r, "issue") /\ (Answer(r) \/ Goto(r, "authenticate"))
        /\ UNCHANGED <<ceremonies, sessions>>
  <2> DEFINE issued ==
        [by |-> r, ceremony |-> requests[r].ceremony,
         credential |-> requests[r].credential, counter |-> requests[r].counter,
         purpose |-> requests[r].purpose, authenticatedAt |-> requests[r].at]
  <2>1. /\ issued.by = r /\ issued.ceremony = requests[r].ceremony
        /\ issued.authenticatedAt = requests[r].at
    OBVIOUS
  <2>2. /\ proofs' = proofs \cup {issued}
        /\ At(r, "issue") /\ (Answer(r) \/ Goto(r, "authenticate"))
        /\ UNCHANGED <<ceremonies, sessions>>
    BY DEF IssueProof
  <2> HIDE DEF issued
  <2>3. QED
    BY <2>1, <2>2
<1>2. /\ requests[r].step \in FinishSteps /\ Past(r)
      /\ requests[r].step \notin {"authenticate", "redeem", "write"}
  BY <1>1 DEF At, Past, FinishSteps, Steps
<1>3. LastTime(proof) = LastTime(requests[r])
  BY <1>1 DEF LastTime
<1>4. /\ \/ requests'[r].step = "idle"
         \/ /\ requests'[r].step = "authenticate"
            /\ requests'[r].ceremony = requests[r].ceremony
            /\ requests'[r].at = requests[r].at
      /\ \A q \in Requests \ {r} : requests'[q] = requests[q]
  BY <1>1, <1>2, AnswerRequest, GotoRequest DEF TypeInv
<1>5. \A q \in Requests : Past(q)' =>
        /\ Past(q) /\ requests'[q].ceremony = requests[q].ceremony
        /\ requests'[q].at = requests[q].at
  BY <1>2, <1>4 DEF Past, FinishSteps
<1>6. \A q \in Requests \ {r} : ~ Uses(requests[r], q)
  BY <1>2 DEF CeremonyInv
<1>7. \A q \in Requests : Past(q)' => ceremonies'[requests'[q].ceremony].consumed
  BY <1>1, <1>5 DEF CeremonyInv
<1>8. /\ \A q \in Requests : Past(q)' /\ requests'[q].step \notin {"redeem", "write"} =>
           requests'[q].at <= LastTime(requests[q])'
      /\ \A q \in Requests : requests'[q].step = "write" =>
           requests'[q].at <= LastTime(requests[q])' + ProofLifetimeMs
  BY <1>1, <1>2, <1>4, <1>5 DEF CeremonyInv, LastTime
<1>9. \A p, q \in Requests : Past(p)' /\ Uses(requests[p], q)' => p = q
  BY <1>5 DEF CeremonyInv, Uses
<1>10. \A p \in proofs' :
         /\ p.ceremony \in DOMAIN ceremonies' /\ ceremonies'[p.ceremony].consumed
         /\ p.authenticatedAt <= LastTime(p)'
         /\ \A q \in Requests :
              Uses(p, q)' => p.by = q /\ requests'[q].step \in {"authenticate", "redeem"}
  <2>1. /\ requests[r].ceremony \in DOMAIN ceremonies
        /\ ceremonies[requests[r].ceremony].consumed
        /\ requests[r].at <= LastTime(requests[r])
    BY <1>2 DEF TypeInv, RequestsTyped, CeremonyInv
  <2>2. \A q \in Requests :
          Uses(proof, q)' => q = r /\ requests'[q].step = "authenticate"
    BY <1>1, <1>4, <1>5, <1>6 DEF Uses, Past, FinishSteps
  <2>3. \A p \in proofs : \A q \in Requests : Uses(p, q)' => q # r /\ Uses(p, q)
    BY <1>2, <1>4, <1>5 DEF Uses, CeremonyInv
  <2>4. LastTime(proof)' = LastTime(requests[r]) /\ \A p \in proofs : LastTime(p)' = LastTime(p)
    BY <1>1, <1>3 DEF LastTime
  <2>5. ASSUME NEW p \in proofs
        PROVE  /\ p.ceremony \in DOMAIN ceremonies' /\ ceremonies'[p.ceremony].consumed
               /\ p.authenticatedAt <= LastTime(p)'
               /\ \A q \in Requests :
                    Uses(p, q)' => p.by = q /\ requests'[q].step \in {"authenticate", "redeem"}
    BY <1>1, <1>4, <2>3, <2>4 DEF CeremonyInv
  <2>6. QED
    BY <1>1, <1>3, <2>1, <2>2, <2>4, <2>5
<1>11. \A s \in sessions' :
         /\ s.ceremony \in DOMAIN ceremonies' /\ ceremonies'[s.ceremony].consumed
         /\ \A q \in Requests : ~ Uses(s, q)'
         /\ \A p \in proofs' : p.ceremony # s.ceremony
  <2>1. \A s \in sessions : s.ceremony # requests[r].ceremony
    BY <1>2 DEF CeremonyInv, Uses
  <2>2. \A s \in sessions, q \in Requests : ~ Uses(s, q)'
    BY <1>5 DEF CeremonyInv, Uses
  <2>3. QED
    BY <1>1, <1>3, <2>1, <2>2 DEF CeremonyInv
<1>12. OneSessionPerCeremony'
  BY <1>1 DEF CeremonyInv, OneSessionPerCeremony
<1>13. QED
  BY <1>7, <1>8, <1>9, <1>10, <1>11, <1>12 DEF CeremonyInv

(* Redeeming the proof: the request goes on without it, within its life.   *)
LEMMA RedeemCeremonies ==
  ASSUME TypeInv, CeremonyInv, NEW r \in Requests, RedeemProof(r), ~ Answer(r)
  PROVE  CeremonyInv'
<1>1. /\ At(r, "redeem") /\ Goto(r, "write")
      /\ proofs' = {p \in proofs : p.by # r \/ p.ceremony # requests[r].ceremony}
      /\ \E p \in proofs : p.ceremony = requests[r].ceremony /\ Redeemable(p)
      /\ UNCHANGED <<ceremonies, sessions>>
  BY DEF RedeemProof
<1>2. requests[r].step \in FinishSteps /\ Past(r)
  BY <1>1 DEF At, Past, FinishSteps, Steps
<1>3. /\ requests'[r].step = "write"
      /\ requests'[r].ceremony = requests[r].ceremony
      /\ requests'[r].at = requests[r].at
      /\ \A q \in Requests \ {r} : requests'[q] = requests[q]
  BY <1>1, <1>2, GotoRequest DEF TypeInv
<1>4. \A q \in Requests : Past(q)' =>
        /\ Past(q) /\ requests'[q].ceremony = requests[q].ceremony
        /\ requests'[q].at = requests[q].at
  BY <1>2, <1>3 DEF Past
<1>5. requests[r].at <= LastTime(requests[r]) + ProofLifetimeMs
  <2>1. PICK p \in proofs : p.ceremony = requests[r].ceremony /\ Redeemable(p)
    BY <1>1
  <2>2. p.authenticatedAt <= LastTime(requests[r])
    BY <2>1 DEF CeremonyInv, LastTime
  <2>3. requests[r].at <= now /\ now <= p.authenticatedAt + ProofLifetimeMs
    BY <1>2, <2>1 DEF TypeInv, RequestsTyped, Redeemable
  <2>4. /\ requests[r].at \in Nat /\ now \in Nat /\ p.authenticatedAt \in Nat
        /\ LastTime(requests[r]) \in Nat /\ ProofLifetimeMs \in Nat
    <3>1. requests[r].ceremony \in DOMAIN ceremonies /\ requests[r] \in FinishRequests
      BY <1>2, RequestFields DEF TypeInv, RequestsTyped
    <3>2. ceremonies[requests[r].ceremony].createdAt \in Nat
      BY <3>1 DEF TypeInv, Ceremonies
    <3>3. QED
      BY <3>1, <3>2, CeremonyAssumption
         DEF FinishRequests, TypeInv, TypeOK, Proofs, LastTime
  <2>5. QED
    BY <2>2, <2>3, <2>4
<1>6. \A q \in Requests : Past(q)' => ceremonies'[requests'[q].ceremony].consumed
  BY <1>1, <1>4 DEF CeremonyInv
<1>7. /\ \A q \in Requests : Past(q)' /\ requests'[q].step \notin {"redeem", "write"} =>
           requests'[q].at <= LastTime(requests[q])'
      /\ \A q \in Requests : requests'[q].step = "write" =>
           requests'[q].at <= LastTime(requests[q])' + ProofLifetimeMs
  BY <1>1, <1>3, <1>4, <1>5 DEF CeremonyInv, LastTime
<1>8. \A p, q \in Requests : Past(p)' /\ Uses(requests[p], q)' => p = q
  BY <1>4 DEF CeremonyInv, Uses
<1>9. \A p \in proofs' :
        /\ p.ceremony \in DOMAIN ceremonies' /\ ceremonies'[p.ceremony].consumed
        /\ p.authenticatedAt <= LastTime(p)'
        /\ \A q \in Requests :
             Uses(p, q)' => p.by = q /\ requests'[q].step \in {"authenticate", "redeem"}
  <2>1. SUFFICES ASSUME NEW p \in proofs,
                        p.by # r \/ p.ceremony # requests[r].ceremony
        PROVE  /\ p.ceremony \in DOMAIN ceremonies' /\ ceremonies'[p.ceremony].consumed
               /\ p.authenticatedAt <= LastTime(p)'
               /\ \A q \in Requests : Uses(p, q)' =>
                    p.by = q /\ requests'[q].step \in {"authenticate", "redeem"}
    BY <1>1
  <2>2. \A q \in Requests : Uses(p, q)' => Uses(p, q) /\ q # r
    BY <1>4, <2>1 DEF Uses, CeremonyInv
  <2>3. LastTime(p)' = LastTime(p)
    BY <1>1 DEF LastTime
  <2>4. QED
    BY <1>1, <1>3, <2>2, <2>3 DEF CeremonyInv
<1>10. \A s \in sessions' :
         /\ s.ceremony \in DOMAIN ceremonies' /\ ceremonies'[s.ceremony].consumed
         /\ \A q \in Requests : ~ Uses(s, q)'
         /\ \A p \in proofs' : p.ceremony # s.ceremony
  BY <1>1, <1>4 DEF CeremonyInv, Uses
<1>11. OneSessionPerCeremony'
  BY <1>1 DEF CeremonyInv, OneSessionPerCeremony
<1>12. QED
  BY <1>6, <1>7, <1>8, <1>9, <1>10, <1>11 DEF CeremonyInv

(* Signing in: what the request had in hand becomes the session.           *)
LEMMA SessionCeremonies ==
  ASSUME TypeInv, CeremonyInv, NEW r \in Requests, WriteSession(r)
  PROVE  CeremonyInv'
<1>1. PICK session :
        /\ session.ceremony = requests[r].ceremony
        /\ session.authenticatedAt = requests[r].at
        /\ sessions' = sessions \cup {session}
        /\ At(r, "write") /\ Answer(r) /\ UNCHANGED <<ceremonies, proofs>>
  <2> DEFINE written ==
        [by |-> r, ceremony |-> requests[r].ceremony,
         credential |-> requests[r].credential,
         counter |-> requests[r].counter, authenticatedAt |-> requests[r].at]
  <2>1. /\ written.ceremony = requests[r].ceremony
        /\ written.authenticatedAt = requests[r].at
    OBVIOUS
  <2>2. /\ sessions' = sessions \cup {written}
        /\ At(r, "write") /\ Answer(r) /\ UNCHANGED <<ceremonies, proofs>>
    BY DEF WriteSession, tables
  <2> HIDE DEF written
  <2>3. QED
    BY <2>1, <2>2
<1>2. requests[r].step \in FinishSteps /\ Past(r) /\ requests[r].step = "write"
  BY <1>1 DEF At, Past, FinishSteps, Steps
<1>3. /\ requests'[r].step = "idle"
      /\ \A q \in Requests \ {r} : requests'[q] = requests[q]
  BY <1>1, AnswerRequest DEF TypeInv
<1>4. \A q \in Requests : Past(q)' => Past(q) /\ q # r
  BY <1>3 DEF Past, FinishSteps
<1>5. \A q \in Requests : requests'[q].step = "write" => q # r
  BY <1>3
<1>6. /\ requests[r].ceremony \in DOMAIN ceremonies
      /\ ceremonies[requests[r].ceremony].consumed
      /\ requests[r].at <= LastTime(requests[r]) + ProofLifetimeMs
      /\ \A p \in proofs : p.ceremony # requests[r].ceremony
      /\ \A q \in Requests : Past(q) /\ requests[q].ceremony = requests[r].ceremony => q = r
      /\ \A s \in sessions : s.ceremony # requests[r].ceremony
  BY <1>2 DEF TypeInv, RequestsTyped, CeremonyInv, Uses
<1>7. \A q \in Requests : Past(q)' => ceremonies'[requests'[q].ceremony].consumed
  BY <1>1, <1>3, <1>4 DEF CeremonyInv
<1>8. /\ \A q \in Requests : Past(q)' /\ requests'[q].step \notin {"redeem", "write"} =>
           requests'[q].at <= LastTime(requests[q])'
      /\ \A q \in Requests : requests'[q].step = "write" =>
           requests'[q].at <= LastTime(requests[q])' + ProofLifetimeMs
  BY <1>1, <1>3, <1>4, <1>5 DEF CeremonyInv, LastTime
<1>9. \A p, q \in Requests : Past(p)' /\ Uses(requests[p], q)' => p = q
  BY <1>3, <1>4 DEF CeremonyInv, Uses
<1>10. \A p \in proofs' :
         /\ p.ceremony \in DOMAIN ceremonies' /\ ceremonies'[p.ceremony].consumed
         /\ p.authenticatedAt <= LastTime(p)'
         /\ \A q \in Requests :
              Uses(p, q)' => p.by = q /\ requests'[q].step \in {"authenticate", "redeem"}
  BY <1>1, <1>3, <1>4 DEF CeremonyInv, LastTime, Uses
<1>11. \A s \in sessions' :
         /\ s.ceremony \in DOMAIN ceremonies' /\ ceremonies'[s.ceremony].consumed
         /\ \A q \in Requests : ~ Uses(s, q)'
         /\ \A p \in proofs' : p.ceremony # s.ceremony
  BY <1>1, <1>3, <1>4, <1>6 DEF CeremonyInv, Uses
<1>12. OneSessionPerCeremony'
  BY <1>1, <1>6 DEF CeremonyInv, OneSessionPerCeremony, LastTime
<1>13. QED
  BY <1>7, <1>8, <1>9, <1>10, <1>11, <1>12 DEF CeremonyInv

(* Every other step.                                                       *)
LEMMA OtherCeremonies ==
  ASSUME TypeInv, CeremonyInv, [Next]_vars,
         ~ \E r \in Requests : WriteSession(r) \/ IssueProof(r),
         ~ \E r \in Requests : (ConsumeCeremony(r) \/ RedeemProof(r)) /\ ~ Answer(r)
  PROVE  CeremoniesKept
<1>1. ASSUME NEW r \in Requests,
             \A q \in Requests \ {r} : requests'[q] = requests[q],
             requests'[r].step \notin FinishSteps \ {"consume"},
             UNCHANGED sessions, proofs' \subseteq proofs, CeremoniesStay
      PROVE  CeremoniesKept
  BY <1>1 DEF CeremoniesKept, StepKept, Past
<1>2. ASSUME NEW r \in Requests, Answer(r),
             UNCHANGED sessions, proofs' \subseteq proofs, CeremoniesStay
      PROVE  CeremoniesKept
  BY <1>1, <1>2, AnswerRequest DEF TypeInv, FinishSteps
<1>3. ASSUME NEW r \in Requests, NEW step,
             Goto(r, step), Past(r),
             requests[r].step \notin {"authenticate", "redeem", "write"},
             step \notin {"redeem", "write"},
             UNCHANGED <<ceremonies, sessions, proofs>>
      PROVE  CeremoniesKept
  <2>1. /\ requests'[r].step = step
        /\ requests'[r].ceremony = requests[r].ceremony
        /\ requests'[r].at = requests[r].at
        /\ \A q \in Requests \ {r} : requests'[q] = requests[q]
    BY <1>3, GotoRequest DEF TypeInv, Past
  <2>2. QED
    BY <1>3, <2>1 DEF CeremoniesKept, CeremoniesStay, StepKept, Past
<1>4. ASSUME NEW r \in Requests, Start(r) PROVE CeremoniesKept
  <2>1. UNCHANGED sessions /\ proofs' \subseteq proofs
    BY <1>4 DEF Start, StartBootstrap, StartAuthentication, StartRegistration,
                CreateCeremony, tables
  <2>2. CeremoniesStay
    <3>1. CASE UNCHANGED ceremonies
      BY <3>1 DEF CeremoniesStay
    <3>2. ASSUME NEW id \in CeremonyIds, CreateCeremony(r, id) PROVE CeremoniesStay
      BY <3>2 DEF CreateCeremony, With, CeremoniesStay
    <3>3. QED
      BY <1>4, <3>1, <3>2
         DEF Start, StartBootstrap, StartAuthentication, StartRegistration, tables
  <2>3. Answer(r) \/ \E purpose \in Purposes : Begin(r, StartRequest(purpose))
    BY <1>4 DEF Start, StartBootstrap, StartAuthentication, StartRegistration,
                CreateCeremony, Purposes, Registrations
  <2>4. ASSUME NEW purpose \in Purposes, Begin(r, StartRequest(purpose))
        PROVE  CeremoniesKept
    <3>1. StartRequest(purpose).step \notin FinishSteps
      BY DEF StartRequest, FinishSteps
    <3>2. QED
      BY <1>1, <2>1, <2>2, <2>4, <3>1, BeginRequest DEF TypeInv
  <2>5. QED
    BY <1>2, <2>1, <2>2, <2>3, <2>4
<1>5. ASSUME NEW r \in Requests, NEW purpose \in Offered, NEW id \in CeremonyIds,
             NEW c \in CredentialIds, NEW counter \in Counters,
             Finish(r, purpose, id, c, counter)
      PROVE  CeremoniesKept
  <2>1. FinishRequest(purpose, id, c, counter).step = "consume"
    BY DEF FinishRequest
  <2>2. /\ Begin(r, FinishRequest(purpose, id, c, counter))
        /\ UNCHANGED <<ceremonies, sessions, proofs>> /\ CeremoniesStay
    BY <1>5 DEF Finish, CeremoniesStay, tables
  <2>3. QED
    BY <1>1, <2>1, <2>2, BeginRequest DEF TypeInv
<1>6. ASSUME NEW r \in Requests, ConsumeCeremony(r) PROVE CeremoniesKept
  <2>1. Answer(r) /\ At(r, "consume") /\ UNCHANGED <<proofs, sessions>>
    BY <1>6 DEF ConsumeCeremony
  <2>2. ~ Goto(r, NextStatement(requests[r].purpose))
    <3>1. requests[r].step \in FinishSteps
      BY <2>1 DEF At, FinishSteps, Steps
    <3>2. NextStatement(requests[r].purpose) # "idle"
      BY DEF NextStatement
    <3>3. QED
      BY <2>1, <3>1, <3>2, AnswerRequest, GotoRequest DEF TypeInv
  <2>3. CeremoniesStay
    BY <1>6, <2>2 DEF ConsumeCeremony, CeremoniesStay
  <2>4. QED
    BY <1>2, <2>1, <2>3
<1>7. ASSUME NEW r \in Requests, RegisterCredential(r) PROVE CeremoniesKept
  <2>1. /\ UNCHANGED <<ceremonies, sessions, proofs>> /\ CeremoniesStay /\ Past(r)
        /\ requests[r].step \notin {"authenticate", "redeem", "write"}
        /\ Answer(r) \/ Goto(r, "initialize")
    BY <1>7 DEF RegisterCredential, CeremoniesStay, At, Past, FinishSteps, Steps
  <2>2. QED
    BY <1>2, <1>3, <2>1
<1>8. ASSUME NEW r \in Requests, InitializeIdentity(r) \/ Abandon(r) PROVE CeremoniesKept
  <2>1. Answer(r) /\ UNCHANGED <<ceremonies, sessions, proofs>> /\ CeremoniesStay
    BY <1>8 DEF InitializeIdentity, Abandon, tables, CeremoniesStay
  <2>2. QED
    BY <1>2, <2>1
<1>9. ASSUME NEW r \in Requests, ReadCredential(r) PROVE CeremoniesKept
  <2> DEFINE c == requests[r].credential
  <2>1. /\ At(r, "read") /\ UNCHANGED <<ceremonies, sessions, proofs>> /\ CeremoniesStay
        /\ \/ Answer(r)
           \/ requests' = [requests EXCEPT
                ![r] = [requests[r] EXCEPT !.step = "update", !.expected = credentials[c]]]
    BY <1>9 DEF ReadCredential, tables, CeremoniesStay
  <2>2. CASE Answer(r)
    BY <1>2, <2>1, <2>2
  <2>3. CASE ~ Answer(r)
    <3> DEFINE request == [requests[r] EXCEPT !.step = "update",
                                              !.expected = credentials[c]]
    <3>1. Past(r) /\ requests[r] \in FinishRequests
      BY <2>1, RequestFields DEF At, Past, FinishSteps, Steps, TypeInv
    <3>2. /\ request.step = "update" /\ request.ceremony = requests[r].ceremony
          /\ request.at = requests[r].at
      BY <3>1 DEF FinishRequests
    <3>3. requests' = [requests EXCEPT ![r] = request]
      BY <2>1, <2>3
    <3> HIDE DEF request
    <3>4. requests'[r] = request /\ \A q \in Requests \ {r} : requests'[q] = requests[q]
      BY <3>3 DEF TypeInv, RequestsTyped
    <3>5. QED
      BY <2>1, <3>1, <3>2, <3>4 DEF CeremoniesKept, StepKept, Past, At
  <2>4. QED
    BY <2>2, <2>3
<1>10. ASSUME NEW r \in Requests, UpdateCounter(r) PROVE CeremoniesKept
  <2>1. /\ UNCHANGED <<ceremonies, sessions, proofs>> /\ CeremoniesStay /\ Past(r)
        /\ requests[r].step \notin {"authenticate", "redeem", "write"}
        /\ Answer(r) \/ Goto(r, "issue")
    BY <1>10 DEF UpdateCounter, CeremoniesStay, At, Past, FinishSteps, Steps
  <2>2. QED
    BY <1>2, <1>3, <2>1
<1>11. ASSUME NEW r \in Requests, Authenticate(r) PROVE CeremoniesKept
  <2>1. /\ At(r, "authenticate") /\ UNCHANGED <<ceremonies, sessions, proofs>>
        /\ CeremoniesStay
        /\ \/ Answer(r)
           \/ requests' = [requests EXCEPT
                ![r] = [requests[r] EXCEPT !.step = "redeem", !.at = now]]
    BY <1>11 DEF Authenticate, tables, CeremoniesStay
  <2>2. CASE Answer(r)
    BY <1>2, <2>1, <2>2
  <2>3. CASE ~ Answer(r)
    <3> DEFINE request == [requests[r] EXCEPT !.step = "redeem", !.at = now]
    <3>1. Past(r) /\ requests[r] \in FinishRequests
      BY <2>1, RequestFields DEF At, Past, FinishSteps, Steps, TypeInv
    <3>2. request.step = "redeem" /\ request.ceremony = requests[r].ceremony
      BY <3>1 DEF FinishRequests
    <3>3. requests' = [requests EXCEPT ![r] = request]
      BY <2>1, <2>3
    <3> HIDE DEF request
    <3>4. requests'[r] = request /\ \A q \in Requests \ {r} : requests'[q] = requests[q]
      BY <3>3 DEF TypeInv, RequestsTyped
    <3>5. QED
      BY <2>1, <3>1, <3>2, <3>4 DEF CeremoniesKept, StepKept, Past, At
  <2>4. QED
    BY <2>2, <2>3
<1>12. ASSUME NEW r \in Requests, RedeemProof(r) PROVE CeremoniesKept
  <2>1. /\ Answer(r) /\ UNCHANGED <<ceremonies, sessions>> /\ CeremoniesStay
        /\ proofs' \subseteq proofs
    BY <1>12 DEF RedeemProof, CeremoniesStay
  <2>2. QED
    BY <1>2, <2>1
<1>13. CASE Tick \/ UNCHANGED vars
  BY <1>13 DEF Tick, vars, tables, CeremoniesKept, CeremoniesStay, StepKept, Past
<1>14. QED
  BY <1>4, <1>5, <1>6, <1>7, <1>8, <1>9, <1>10, <1>11, <1>12, <1>13 DEF Next, Step

(* Every step keeps the ceremonies in single hands.                        *)
LEMMA NextCeremonies == TypeInv /\ CeremonyInv /\ [Next]_vars => CeremonyInv'
BY ConsumeCeremonies, IssueCeremonies, RedeemCeremonies, SessionCeremonies,
   OtherCeremonies, KeptCeremonies

(* A ceremony leads to one sign-in at most, within the life of its         *)
(* challenge and of its proof, whatever its requests wait for in between   *)
(* (consumeWebAuthnCeremony and consumeAssertionProof of postgres.ts).     *)
THEOREM CeremoniesAreUsedOnce == Spec => []OneSessionPerCeremony
<1>1. CeremonyInv => OneSessionPerCeremony
  BY DEF CeremonyInv
<1>2. QED
  BY <1>1, TypesHold, InitCeremonies, NextCeremonies, PTL DEF Spec
-----------------------------------------------------------------------------
(* Enrolment.                                                              *)

\* Requests and ceremonies that fresh authentication has opened for one more
\* credential, and that have not led to one yet.
Enrolling ==
  {r \in Requests : /\ requests[r].step \in {"create", "register"}
                    /\ requests[r].purpose = "register"}
Unanswered ==
  {id \in DOMAIN ceremonies :
     ceremonies[id].purpose = "register" /\ ~ ceremonies[id].consumed}

\* So many requests and ceremonies open, so many credentials there: the
\* bootstrap is only there to take as long as no credential is.
Fits(open, waiting, enrolled, allowed) ==
  /\ IsFiniteSet(open) /\ IsFiniteSet(waiting) /\ IsFiniteSet(enrolled)
  /\ Cardinality(open) + Cardinality(waiting) <= allowed
  /\ enrolled # {} =>
       Cardinality(enrolled) + Cardinality(open) + Cardinality(waiting) <= 1 + allowed

(* The inductive invariant behind EnrolmentIsAuthorized: every             *)
(* authentication made for an enrolment is behind one request, one         *)
(* ceremony or one credential, and never behind two.                       *)
EnrolInv == Fits(Enrolling, Unanswered, DOMAIN credentials, reenrolments)

(* Abandoning what is open.                                                *)
LEMMA FitsFewer ==
  ASSUME NEW O, NEW W, NEW E, NEW n \in Nat, Fits(O, W, E, n),
         NEW P \in SUBSET O, NEW Q \in SUBSET W
  PROVE  Fits(P, Q, E, n)
<1>1. /\ IsFiniteSet(P) /\ Cardinality(P) <= Cardinality(O)
      /\ IsFiniteSet(Q) /\ Cardinality(Q) <= Cardinality(W)
  BY FS_Subset DEF Fits
<1>2. /\ Cardinality(P) \in Nat /\ Cardinality(Q) \in Nat /\ Cardinality(O) \in Nat
      /\ Cardinality(W) \in Nat /\ Cardinality(E) \in Nat
  BY <1>1, FS_CardinalityType DEF Fits
<1>3. QED
  BY <1>1, <1>2 DEF Fits

(* One more authentication opens one more request.                         *)
LEMMA FitsOpen ==
  ASSUME NEW O, NEW W, NEW E, NEW n \in Nat, Fits(O, W, E, n), NEW r
  PROVE  Fits(O \cup {r}, W, E, n + 1)
<1>1. /\ IsFiniteSet(O \cup {r})
      /\ Cardinality(O \cup {r}) = IF r \in O THEN Cardinality(O) ELSE Cardinality(O) + 1
  BY FS_AddElement DEF Fits
<1>2. Cardinality(O) \in Nat /\ Cardinality(W) \in Nat /\ Cardinality(E) \in Nat
  BY FS_CardinalityType DEF Fits
<1>3. QED
  BY <1>1, <1>2 DEF Fits

(* What one set gives the other takes: a request its ceremony, or a        *)
(* ceremony the request that answers it.                                   *)
LEMMA FitsMove ==
  ASSUME NEW O, NEW W, NEW E, NEW n \in Nat, Fits(O, W, E, n), NEW x \in O, NEW y
  PROVE  Fits(O \ {x}, W \cup {y}, E, n)
<1>1. IsFiniteSet(O \ {x}) /\ Cardinality(O \ {x}) = Cardinality(O) - 1
  BY FS_RemoveElement DEF Fits
<1>2. /\ IsFiniteSet(W \cup {y})
      /\ Cardinality(W \cup {y}) = IF y \in W THEN Cardinality(W) ELSE Cardinality(W) + 1
  BY FS_AddElement DEF Fits
<1>3. Cardinality(O) \in Nat /\ Cardinality(W) \in Nat /\ Cardinality(E) \in Nat
  BY FS_CardinalityType DEF Fits
<1>4. QED
  BY <1>1, <1>2, <1>3 DEF Fits

LEMMA FitsEitherWay ==
  ASSUME NEW O, NEW W, NEW E, NEW n \in Nat
  PROVE  Fits(O, W, E, n) <=> Fits(W, O, E, n)
<1>1. ASSUME NEW A, NEW B, Fits(A, B, E, n) PROVE Fits(B, A, E, n)
  <2>1. Cardinality(A) \in Nat /\ Cardinality(B) \in Nat /\ Cardinality(E) \in Nat
    BY <1>1, FS_CardinalityType DEF Fits
  <2>2. QED
    BY <1>1, <2>1 DEF Fits
<1>2. QED
  BY <1>1

(* A request turns into its credential.                                    *)
LEMMA FitsEnrol ==
  ASSUME NEW O, NEW W, NEW E, NEW n \in Nat, Fits(O, W, E, n), NEW r \in O, NEW c
  PROVE  Fits(O \ {r}, W, E \cup {c}, n)
<1>1. IsFiniteSet(O \ {r}) /\ Cardinality(O \ {r}) = Cardinality(O) - 1
  BY FS_RemoveElement DEF Fits
<1>2. /\ IsFiniteSet(E \cup {c})
      /\ Cardinality(E \cup {c}) = IF c \in E THEN Cardinality(E) ELSE Cardinality(E) + 1
  BY FS_AddElement DEF Fits
<1>3. E = {} => Cardinality(E) = 0
  BY FS_EmptySet
<1>4. Cardinality(O) \in Nat /\ Cardinality(W) \in Nat /\ Cardinality(E) \in Nat
  BY FS_CardinalityType DEF Fits
<1>5. QED
  BY <1>1, <1>2, <1>3, <1>4 DEF Fits

(* The bootstrap takes the one place that needs no authentication.         *)
LEMMA FitsBootstrap ==
  ASSUME NEW O, NEW W, NEW n \in Nat, Fits(O, W, {}, n), NEW c
  PROVE  Fits(O, W, {c}, n)
<1>1. IsFiniteSet({c}) /\ Cardinality({c}) = 1
  BY FS_Singleton
<1>2. Cardinality(O) \in Nat /\ Cardinality(W) \in Nat
  BY FS_CardinalityType DEF Fits
<1>3. QED
  BY <1>1, <1>2 DEF Fits

LEMMA InitEnrol == Init => EnrolInv
<1>1. SUFFICES ASSUME Init PROVE EnrolInv
  OBVIOUS
<1>2. Enrolling = {} /\ Unanswered = {} /\ DOMAIN credentials = {}
  BY <1>1 DEF Init, NoRequest, Enrolling, Unanswered
<1>3. IsFiniteSet({}) /\ Cardinality({}) = 0
  BY FS_EmptySet
<1>4. QED
  BY <1>1, <1>2, <1>3 DEF Init, EnrolInv, Fits

(* A step that opens nothing and enrols nothing.                           *)
LEMMA QuietEnrol ==
  ASSUME TypeInv, EnrolInv, UNCHANGED <<credentials, reenrolments>>,
         Enrolling' \subseteq Enrolling, Unanswered' \subseteq Unanswered
  PROVE  EnrolInv'
BY FitsFewer DEF EnrolInv, TypeInv, TypeOK

(* The requests still enrolling when one of them is answered or goes on to *)
(* another step.                                                           *)
LEMMA LeavesEnrolling ==
  ASSUME RequestsTyped, NEW r \in Requests,
         \/ Answer(r)
         \/ /\ requests[r].step \in FinishSteps
            /\ \E step \in Steps \ {"create", "register"} : Goto(r, step)
  PROVE  Enrolling' \subseteq Enrolling \ {r}
<1>1. /\ requests'[r].step \notin {"create", "register"}
      /\ \A q \in Requests \ {r} : requests'[q] = requests[q]
  BY AnswerRequest, GotoRequest
<1>2. QED
  BY <1>1 DEF Enrolling

(* Fresh authentication opens one request, and creating its ceremony hands *)
(* the place over.                                                         *)
LEMMA StartEnrol ==
  ASSUME TypeInv, EnrolInv, NEW r \in Requests, Start(r)
  PROVE  EnrolInv'
<1>1. reenrolments \in Nat
  BY DEF TypeInv, TypeOK
<1>2. ASSUME NEW purpose \in Purposes, Begin(r, StartRequest(purpose))
      PROVE  IF purpose = "register" THEN Enrolling' \subseteq Enrolling \cup {r}
                                     ELSE Enrolling' \subseteq Enrolling
  <2>1. /\ StartRequest(purpose).step = "create"
        /\ StartRequest(purpose).purpose = purpose
    BY DEF StartRequest
  <2>2. /\ requests'[r] = StartRequest(purpose)
        /\ \A q \in Requests \ {r} : requests'[q] = requests[q]
    BY <1>2, BeginRequest DEF TypeInv
  <2>3. QED
    BY <2>1, <2>2 DEF Enrolling
<1>3. CASE StartBootstrap(r) \/ \E purpose \in Authentications : StartAuthentication(r, purpose)
  <2>1. PICK purpose \in Purposes \ {"register"} : Begin(r, StartRequest(purpose))
    BY <1>3 DEF StartBootstrap, StartAuthentication, Purposes, Registrations, Authentications
  <2>2. UNCHANGED <<tables, reenrolments>>
    BY <1>3 DEF StartBootstrap, StartAuthentication
  <2>3. Enrolling' \subseteq Enrolling
    BY <1>2, <2>1
  <2>4. QED
    BY <2>2, <2>3, QuietEnrol DEF Unanswered, tables
<1>4. ASSUME NEW proof \in proofs, StartRegistration(r, proof) PROVE EnrolInv'
  <2>1. UNCHANGED <<ceremonies, credentials>> /\ Unanswered' = Unanswered
    BY <1>4 DEF StartRegistration, Unanswered
  <2>2. CASE Answer(r) /\ UNCHANGED reenrolments
    BY <2>1, <2>2, LeavesEnrolling, QuietEnrol DEF TypeInv
  <2>3. CASE Begin(r, StartRequest("register")) /\ reenrolments' = reenrolments + 1
    <3>1. Enrolling' \subseteq Enrolling \cup {r}
      BY <1>2, <2>3 DEF Purposes, Registrations
    <3>2. Fits(Enrolling \cup {r}, Unanswered, DOMAIN credentials, reenrolments + 1)
      BY <1>1, FitsOpen DEF EnrolInv
    <3>3. Fits(Enrolling', Unanswered, DOMAIN credentials, reenrolments + 1)
      BY <1>1, <3>1, <3>2, FitsFewer
    <3>4. QED
      BY <2>1, <2>3, <3>3 DEF EnrolInv
  <2>4. QED
    BY <1>4, <2>2, <2>3 DEF StartRegistration
<1>5. ASSUME NEW id \in CeremonyIds, CreateCeremony(r, id) PROVE EnrolInv'
  <2> DEFINE ceremony ==
        [purpose |-> requests[r].purpose, createdAt |-> now, consumed |-> FALSE]
  <2>1. /\ At(r, "create") /\ id \notin DOMAIN ceremonies
        /\ ceremonies' = With(ceremonies, id, ceremony) /\ Answer(r)
        /\ UNCHANGED <<credentials, reenrolments>>
    BY <1>5 DEF CreateCeremony
  <2>2. ceremony.purpose = requests[r].purpose
    OBVIOUS
  <2> HIDE DEF ceremony
  <2>3. /\ DOMAIN ceremonies' = DOMAIN ceremonies \cup {id}
        /\ ceremonies'[id].purpose = requests[r].purpose
        /\ \A x \in DOMAIN ceremonies : ceremonies'[x] = ceremonies[x]
    BY <2>1, <2>2 DEF With
  <2>4. Enrolling' \subseteq Enrolling \ {r}
    BY <2>1, LeavesEnrolling DEF TypeInv
  <2>5. CASE requests[r].purpose = "register"
    <3>1. r \in Enrolling
      BY <2>1, <2>5 DEF Enrolling, At
    <3>2. Unanswered' \subseteq Unanswered \cup {id}
      BY <2>3 DEF Unanswered
    <3>3. Fits(Enrolling \ {r}, Unanswered \cup {id}, DOMAIN credentials, reenrolments)
      BY <1>1, <3>1, FitsMove DEF EnrolInv
    <3>4. QED
      BY <1>1, <2>1, <2>4, <3>2, <3>3, FitsFewer DEF EnrolInv
  <2>6. CASE requests[r].purpose # "register"
    <3>1. Unanswered' \subseteq Unanswered
      BY <2>3, <2>6 DEF Unanswered
    <3>2. QED
      BY <2>1, <2>4, <3>1, QuietEnrol
  <2>7. QED
    BY <2>5, <2>6
<1>6. QED
  BY <1>3, <1>4, <1>5 DEF Start

(* A ceremony that is answered hands its place to the request.             *)
LEMMA ConsumeEnrol ==
  ASSUME TypeInv, EnrolInv, NEW r \in Requests, ConsumeCeremony(r)
  PROVE  EnrolInv'
<1> DEFINE id == requests[r].ceremony
           purpose == requests[r].purpose
<1>1. /\ reenrolments \in Nat /\ UNCHANGED <<credentials, reenrolments>>
      /\ requests[r].step \in FinishSteps
  BY DEF TypeInv, TypeOK, ConsumeCeremony, At, FinishSteps, Steps
<1>2. CASE Answer(r) /\ UNCHANGED ceremonies
  <2>1. Enrolling' \subseteq Enrolling /\ Unanswered' \subseteq Unanswered
    BY <1>2, LeavesEnrolling DEF TypeInv, Unanswered
  <2>2. QED
    BY <1>1, <2>1, QuietEnrol
<1>3. CASE /\ ConsumableCeremony(ceremonies[id], purpose, requests[r].at)
           /\ ceremonies' = [ceremonies EXCEPT ![id].consumed = TRUE]
           /\ Goto(r, NextStatement(purpose))
  <2>1. id \in DOMAIN ceremonies /\ ceremonies[id] \in Ceremonies
    BY <1>1 DEF TypeInv, RequestsTyped
  <2>2. /\ DOMAIN ceremonies' = DOMAIN ceremonies /\ ceremonies'[id].consumed
        /\ \A x \in DOMAIN ceremonies \ {id} : ceremonies'[x] = ceremonies[x]
    <3>1. ceremonies'[id] = [ceremonies[id] EXCEPT !.consumed = TRUE]
      BY <1>3, <2>1 DEF TypeInv
    <3>2. QED
      BY <1>3, <2>1, <3>1 DEF TypeInv, Ceremonies
  <2>3. Unanswered' \subseteq Unanswered \ {id}
    BY <2>2 DEF Unanswered
  <2>4. CASE purpose = "register"
    <3>1. id \in Unanswered
      BY <1>3, <2>1, <2>4 DEF ConsumableCeremony, Unanswered
    <3>2. Enrolling' \subseteq Enrolling \cup {r}
      BY <1>1, <1>3, GotoRequest DEF TypeInv, Enrolling
    <3>3. Fits(Unanswered \ {id}, Enrolling \cup {r}, DOMAIN credentials, reenrolments)
      BY <1>1, <3>1, FitsEitherWay, FitsMove DEF EnrolInv
    <3>4. Fits(Unanswered', Enrolling', DOMAIN credentials, reenrolments)
      BY <1>1, <2>3, <3>2, <3>3, FitsFewer
    <3>5. QED
      BY <1>1, <3>4, FitsEitherWay DEF EnrolInv
  <2>5. CASE purpose # "register"
    <3>1. requests'[r].purpose # "register" /\ \A q \in Requests \ {r} : requests'[q] = requests[q]
      BY <1>1, <1>3, <2>5, GotoRequest DEF TypeInv
    <3>2. Enrolling' \subseteq Enrolling
      BY <3>1 DEF Enrolling
    <3>3. QED
      BY <1>1, <2>3, <3>2, QuietEnrol
  <2>6. QED
    BY <2>4, <2>5
<1>4. QED
  BY <1>2, <1>3 DEF ConsumeCeremony

(* Only the bootstrap of an empty store enrols without authentication.     *)
LEMMA RegisterEnrol ==
  ASSUME TypeInv, EnrolInv, NEW r \in Requests, RegisterCredential(r)
  PROVE  EnrolInv'
<1> DEFINE c == requests[r].credential
           purpose == requests[r].purpose
<1>1. /\ reenrolments \in Nat /\ UNCHANGED <<ceremonies, reenrolments>>
      /\ At(r, "register") /\ requests[r].step \in FinishSteps
      /\ Answer(r) \/ Goto(r, "initialize")
  BY DEF TypeInv, TypeOK, RegisterCredential, At, FinishSteps, Steps
<1>2. Enrolling' \subseteq Enrolling \ {r} /\ Unanswered' = Unanswered
  <2>1. "initialize" \in Steps \ {"create", "register"}
    BY DEF Steps
  <2>2. QED
    BY <1>1, <2>1, LeavesEnrolling DEF TypeInv, Unanswered
<1>3. CASE UNCHANGED credentials
  BY <1>1, <1>2, <1>3, QuietEnrol
<1>4. CASE Enrollable(purpose, c) /\ credentials' = With(credentials, c, requests[r].counter)
  <2>1. DOMAIN credentials' = DOMAIN credentials \cup {c}
    BY <1>4 DEF With
  <2>2. CASE purpose = "bootstrap_register"
    <3>1. DOMAIN credentials = {} /\ DOMAIN credentials' = {c}
      BY <1>4, <2>1, <2>2 DEF Enrollable
    <3>2. Fits(Enrolling, Unanswered, {c}, reenrolments)
      BY <1>1, <3>1, FitsBootstrap DEF EnrolInv
    <3>3. QED
      BY <1>1, <1>2, <3>1, <3>2, FitsFewer DEF EnrolInv
  <2>3. CASE purpose # "bootstrap_register"
    <3>1. r \in Enrolling
      <4>1. purpose \in Registrations
        BY <1>1 DEF TypeInv, RequestsTyped
      <4>2. purpose = "register"
        BY <2>3, <4>1 DEF Registrations
      <4>3. QED
        BY <1>1, <4>2 DEF Enrolling, At
    <3>2. Fits(Enrolling \ {r}, Unanswered, DOMAIN credentials \cup {c}, reenrolments)
      BY <1>1, <3>1, FitsEnrol DEF EnrolInv
    <3>3. QED
      BY <1>1, <1>2, <2>1, <3>2, FitsFewer DEF EnrolInv
  <2>4. QED
    BY <2>2, <2>3
<1>5. QED
  BY <1>3, <1>4 DEF RegisterCredential

(* Every step keeps each place in single hands.                            *)
LEMMA NextEnrol == TypeInv /\ EnrolInv /\ [Next]_vars => EnrolInv'
<1>1. SUFFICES ASSUME TypeInv, EnrolInv, [Next]_vars PROVE EnrolInv'
  OBVIOUS
<1>2. ASSUME NEW r \in Requests, Start(r) PROVE EnrolInv'
  BY <1>1, <1>2, StartEnrol
<1>3. ASSUME NEW r \in Requests, NEW purpose \in Offered, NEW id \in CeremonyIds,
             NEW c \in CredentialIds, NEW counter \in Counters,
             Finish(r, purpose, id, c, counter)
      PROVE  EnrolInv'
  <2>1. FinishRequest(purpose, id, c, counter).step = "consume"
    BY DEF FinishRequest
  <2>2. /\ Begin(r, FinishRequest(purpose, id, c, counter))
        /\ UNCHANGED <<ceremonies, credentials, reenrolments>>
    BY <1>3 DEF Finish, tables
  <2>3. requests'[r].step = "consume" /\ \A q \in Requests \ {r} : requests'[q] = requests[q]
    BY <1>1, <2>1, <2>2, BeginRequest DEF TypeInv
  <2>4. Enrolling' \subseteq Enrolling /\ Unanswered' \subseteq Unanswered
    BY <2>2, <2>3 DEF Enrolling, Unanswered
  <2>5. QED
    BY <1>1, <2>2, <2>4, QuietEnrol
<1>4. ASSUME NEW r \in Requests, ConsumeCeremony(r) \/ RegisterCredential(r)
      PROVE  EnrolInv'
  BY <1>1, <1>4, ConsumeEnrol, RegisterEnrol
<1>5. ASSUME UNCHANGED <<ceremonies, reenrolments>>,
             DOMAIN credentials' = DOMAIN credentials, Enrolling' \subseteq Enrolling
      PROVE  EnrolInv'
  <2>1. Unanswered' = Unanswered
    BY <1>5 DEF Unanswered
  <2>2. reenrolments \in Nat
    BY <1>1 DEF TypeInv, TypeOK
  <2>3. QED
    BY <1>1, <1>5, <2>1, <2>2, FitsFewer DEF EnrolInv
<1>6. ASSUME NEW r \in Requests,
             InitializeIdentity(r) \/ UpdateCounter(r) \/ IssueProof(r)
               \/ RedeemProof(r) \/ WriteSession(r) \/ Abandon(r)
      PROVE  EnrolInv'
  <2>1. UNCHANGED <<ceremonies, reenrolments>> /\ DOMAIN credentials' = DOMAIN credentials
    BY <1>6 DEF InitializeIdentity, UpdateCounter, IssueProof, RedeemProof, WriteSession,
                Abandon, tables
  <2>2. {"issue", "authenticate", "write"} \subseteq Steps \ {"create", "register"}
    BY DEF Steps
  <2>3. CASE Answer(r)
    <3>1. Enrolling' \subseteq Enrolling
      BY <1>1, <2>3, LeavesEnrolling DEF TypeInv
    <3>2. QED
      BY <1>5, <2>1, <3>1
  <2>4. CASE ~ Answer(r)
    <3>1. /\ requests[r].step \in FinishSteps
          /\ Goto(r, "issue") \/ Goto(r, "authenticate") \/ Goto(r, "write")
      BY <1>6, <2>4 DEF InitializeIdentity, UpdateCounter, IssueProof, RedeemProof,
                        WriteSession, Abandon, At, FinishSteps, Steps
    <3>2. Enrolling' \subseteq Enrolling
      BY <1>1, <2>2, <3>1, LeavesEnrolling DEF TypeInv
    <3>3. QED
      BY <1>5, <2>1, <3>2
  <2>5. QED
    BY <2>3, <2>4
<1>7. ASSUME NEW r \in Requests, ReadCredential(r) \/ Authenticate(r)
      PROVE  EnrolInv'
  <2>1. /\ UNCHANGED <<ceremonies, credentials, reenrolments>>
        /\ DOMAIN credentials' = DOMAIN credentials
    BY <1>7 DEF ReadCredential, Authenticate, tables
  <2>2. CASE Answer(r)
    <3>1. Enrolling' \subseteq Enrolling
      BY <1>1, <2>2, LeavesEnrolling DEF TypeInv
    <3>2. QED
      BY <1>5, <2>1, <3>1
  <2>3. CASE ~ Answer(r)
    <3>1. requests[r] \in FinishRequests
      BY <1>1, <1>7, RequestFields
         DEF ReadCredential, Authenticate, At, FinishSteps, Steps, TypeInv
    <3>2. PICK request :
            /\ request.step \in {"update", "redeem"}
            /\ requests' = [requests EXCEPT ![r] = request]
      <4> DEFINE read == [requests[r] EXCEPT !.step = "update",
                            !.expected = credentials[requests[r].credential]]
                 authenticated == [requests[r] EXCEPT !.step = "redeem", !.at = now]
      <4>1. read.step = "update" /\ authenticated.step = "redeem"
        BY <3>1 DEF FinishRequests
      <4>2. \/ requests' = [requests EXCEPT ![r] = read]
            \/ requests' = [requests EXCEPT ![r] = authenticated]
        BY <1>7, <2>3 DEF ReadCredential, Authenticate
      <4> HIDE DEF read, authenticated
      <4>3. QED
        BY <4>1, <4>2
    <3>3. requests'[r].step \in {"update", "redeem"}
          /\ \A q \in Requests \ {r} : requests'[q] = requests[q]
      BY <1>1, <3>2 DEF TypeInv, RequestsTyped
    <3>4. Enrolling' \subseteq Enrolling /\ Unanswered' = Unanswered
      BY <2>1, <3>3 DEF Enrolling, Unanswered
    <3>5. QED
      BY <1>1, <2>1, <3>4, QuietEnrol
  <2>4. QED
    BY <2>2, <2>3
<1>8. CASE Tick \/ UNCHANGED vars
  BY <1>1, <1>8 DEF Tick, vars, tables, EnrolInv, Enrolling, Unanswered
<1>9. QED
  BY <1>1, <1>2, <1>3, <1>4, <1>6, <1>7, <1>8 DEF Next, Step

(* Every credential but the bootstrap's was enrolled by an authentication  *)
(* made for that: no two requests share one, and no one bootstraps a store *)
(* in use (enrollWebAuthnCredential of postgres.ts under its table lock).  *)
THEOREM EnrolmentAuthorized == Spec => []EnrolmentHolds
<1>1. TypeInv /\ EnrolInv => EnrolmentHolds
  <2>1. SUFFICES ASSUME TypeInv, EnrolInv PROVE EnrolmentIsAuthorized
    BY DEF TypeInv, EnrolmentHolds
  <2>2. /\ Cardinality(Enrolling) \in Nat /\ Cardinality(Unanswered) \in Nat
        /\ Cardinality(DOMAIN credentials) \in Nat /\ reenrolments \in Nat
    BY <2>1, FS_CardinalityType DEF EnrolInv, Fits, TypeInv, TypeOK
  <2>3. DOMAIN credentials = {} => Cardinality(DOMAIN credentials) = 0
    BY FS_EmptySet
  <2>4. DOMAIN credentials # {} =>
          Cardinality(DOMAIN credentials) + Cardinality(Enrolling)
            + Cardinality(Unanswered) <= 1 + reenrolments
    BY <2>1 DEF EnrolInv, Fits
  <2>5. Cardinality(DOMAIN credentials) <= 1 + reenrolments
    <3>1. CASE DOMAIN credentials = {}
      BY <2>2, <2>3, <3>1
    <3>2. CASE DOMAIN credentials # {}
      <4> DEFINE d == Cardinality(DOMAIN credentials)
                 o == Cardinality(Enrolling)
                 u == Cardinality(Unanswered)
      <4>1. d + o + u <= 1 + reenrolments /\ d \in Nat /\ o \in Nat /\ u \in Nat
        BY <2>2, <2>4, <3>2
      <4> HIDE DEF d, o, u
      <4>2. d <= 1 + reenrolments
        BY <2>2, <4>1
      <4>3. QED
        BY <4>2 DEF d
    <3>3. QED
      BY <3>1, <3>2
  <2>6. QED
    BY <2>5 DEF EnrolmentIsAuthorized
<1>2. QED
  BY <1>1, TypesHold, InitEnrol, NextEnrol, PTL DEF Spec
=============================================================================
