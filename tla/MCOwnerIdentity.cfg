\* Three credentials, two sessions, two channels and any three commands; the
\* constants of the other parts are in the module.
SPECIFICATION MCSpec
CONSTANTS
  CredentialIds = {1, 2, 3}
  SessionIds = {1, 2}
  ChannelRefs = {1, 2}
  CommandKeys = {1, 2, 3}
  RecoveryCoolingOffMs = 2
  ChannelChangeCoolingOffMs = 1
  RecentAuthenticationWindowMs = 1
  SessionLifetimeMs = 2
  AttemptIds = {1}
  Expiries = {3}
  FailureThreshold = 1
  BaseLockMs = 1
  MaxLockMs = 1
  DatabaseSkews = {0, 1}
  MaxSafe = 4
  MaxTime = 3
  MaxFailures = 1
CHECK_DEADLOCK FALSE
INVARIANTS
  SessionsAreBacked
  RecordsMatchProofs
  GuessesAreLimited
PROPERTIES
  AttemptsAreFinal
  KeepsAuthority
