SPECIFICATION MCSpec
CONSTANTS
  Requests = {r1, r2}
  CeremonyIds = {1, 2, 3}
  CredentialIds = {1, 2}
  Counters = {0, 1, 2}
  Offered = {"bootstrap_register", "register", "authenticate", "reauthenticate"}
  CeremonyLifetimeMs = 1
  ProofLifetimeMs = 1
  MaxTime = 3
SYMMETRY Symmetry
CHECK_DEADLOCK FALSE
INVARIANTS
  EnrolmentHolds
  OneSessionPerCeremony
  ClonesAreNoticed
