SPECIFICATION FairSpec
CONSTANTS
  OwnerCommands <- PauseCommands
  ApiSkews = {1}
  MaxInFlight = 1
  MaxTime = 3
  DraftTime = 0
  CheckInIntervalMs = 3
  ReminderLeadMs = 1
  GracePeriodMs = 1
  MaxSafe = 11
  ClaimedKinds = {"advance", "notice"}
  Workers = {w1}
  MaxAttempts = 1
  LeaseMs = 1
  RetryMs = 1
  Limit = 1
  ClockSkews = {0}
INVARIANTS
  ArmedPlanIsScheduled
  OutboxMatchesHistory
PROPERTIES
  NoConcernForAPresentOwner
  SilenceIsNoticed
