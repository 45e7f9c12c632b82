SPECIFICATION Spec
CONSTANTS
  OwnerCommands <- CheckInCommands
  ApiSkews = {0}
  MaxInFlight = 1
  MaxTime = 1
  DraftTime = 0
  CheckInIntervalMs = 3
  ReminderLeadMs = 1
  GracePeriodMs = 1
  MaxSafe = 11
  ClaimedKinds = {"advance"}
  Workers = {w1, w2}
  MaxAttempts = 2
  LeaseMs = 1
  RetryMs = 1
  Limit = 1
  ClockSkews = {0}
SYMMETRY WorkerSymmetry
INVARIANTS
  ScheduleIsSound
